---------------------------- MODULE Spec2Model ----------------------------
(***************************************************************************)
(* A model of the SXSW schedule API worker: the search core               *)
(* (normalize, tokenize, canonicalizeToken, buildSearchIndex,             *)
(* scoreTokenMatches, analyzeQuery), the result ordering (searchSort) and  *)
(* the shortlist handler's per-date primary/fallback step.                 *)
(*                                                                         *)
(* Text is modelled as TLA+ strings, that is, sequences of characters:     *)
(* every conversion below walks the characters the way the JavaScript      *)
(* does.                                                                   *)
(***************************************************************************)
EXTENDS Integers, Sequences, FiniteSets, TLC

VARIABLES
    event,      \* the event record analyzeQuery is called with
    query,      \* the raw q string of the call
    qMode,      \* the q_mode of the call
    result,     \* NoResult before the call, analyzeQuery's return value after
    feed,       \* the events of the snapshot (data.events of the slim feed)
    req,        \* the search parameters of the request being handled
    pc,         \* where the request's handler is
    hits,       \* the rows the handler's loop pushed, in that order
    dates,      \* handleShortlist: the dates of the feed, sorted
    used,       \* handleShortlist: usedQuery and usedMode of the current date
    days,       \* handleShortlist: the day records pushed so far
    evals,      \* the evaluations of a query over a date's events, in order
    other,      \* a second request in flight: its parameters, position, rows, answer
    response,   \* the Response the handler returned
    _cache,     \* module variable _cache: <<>> for null, <<events>> once assigned
    _cacheMeta, \* module variable _cacheMeta: <<>> for null, <<meta>> once assigned
    _cacheExpiry, \* module variable _cacheExpiry, in milliseconds
    clock,      \* what Date.now() returns, in milliseconds
    calls,      \* the calls of getSnapshot: position, now, res, returned value
    RETRIES,    \* build script: Number(process.env.RETRIES || 4)
    attempt,    \* fetchJsonWithRetry: the loop variable
    lastError,  \* fetchJsonWithRetry: the error of the last failed attempt, "" for null
    fetchPc,    \* fetchJsonWithRetry: where the call is
    fetchLog,   \* the fetches and sleeps fetchJsonWithRetry made, in order
    fetchOut,   \* what fetchJsonWithRetry returned or threw
    CONCURRENCY, \* build script: Number(process.env.CONCURRENCY || 8), the limit
    eventIds,   \* fetchEventDetails: the items handed to mapWithConcurrency
    records,    \* mapWithConcurrency: the results array, <<>> at an empty slot
    nextIndex,  \* mapWithConcurrency: the next index to hand out (0-based)
    workers,    \* mapWithConcurrency: the runWorker calls: position and current
    invoked,    \* how many times the worker was called for each index
    details,    \* what fetchEventDetails returned
    currentEvents,      \* buildChangeRecords: the events of this build
    previousEventsById, \* buildChangeRecords: the events of the previous build
    changeSet   \* what buildChangeRecords returned

coreVars == <<event, query, qMode, result>>
apiVars == <<feed, req, pc, hits, response>>
shortlistVars == <<dates, used, days, evals>>
cacheVars == <<_cache, _cacheMeta, _cacheExpiry, clock, calls>>
retryVars == <<RETRIES, attempt, lastError, fetchPc, fetchLog, fetchOut>>
mapVars == <<CONCURRENCY, eventIds, records, nextIndex, workers, invoked, details>>
changeVars == <<currentEvents, previousEventsById, changeSet>>
scriptVars == <<retryVars, mapVars, changeVars>>
restVars == <<cacheVars, scriptVars>>

---------------------------------------------------------------------------
(* Characters *)

UpperChars == "ABCDEFGHIJKLMNOPQRSTUVWXYZ"
LowerChars == "abcdefghijklmnopqrstuvwxyz"
DigitChars == "0123456789"

CharAt(s, i) == SubSeq(s, i, i)

CharsOf(s) == {CharAt(s, i) : i \in 1..Len(s)}

\* The position of character c in s (0 when c does not occur)
IndexIn(s, c) ==
    IF \E i \in 1..Len(s) : CharAt(s, i) = c
    THEN CHOOSE i \in 1..Len(s) : CharAt(s, i) = c
    ELSE 0

\* /\s/ : the whitespace characters that occur in the modelled inputs
SpaceChars == {" ", "\t"}
IsSpace(c) == c \in SpaceChars

\* /[a-z0-9]/
TokenChars == CharsOf(LowerChars) \cup CharsOf(DigitChars)
IsTokenChar(c) == c \in TokenChars

\* String.prototype.toLowerCase on one character
LowerOf == [c \in CharsOf(UpperChars) |-> CharAt(LowerChars, IndexIn(UpperChars, c))]
LowerChar(c) == IF c \in DOMAIN LowerOf THEN LowerOf[c] ELSE c

RECURSIVE toLowerCase(_)
toLowerCase(s) ==
    IF s = "" THEN "" ELSE LowerChar(CharAt(s, 1)) \o toLowerCase(Tail(s))

\* .replace(/\s+/g, " ") : every maximal run of whitespace becomes one space
RECURSIVE collapseSpaces(_)
collapseSpaces(s) ==
    IF s = "" THEN ""
    ELSE IF IsSpace(CharAt(s, 1))
         THEN IF Len(s) > 1 /\ IsSpace(CharAt(s, 2))
              THEN collapseSpaces(Tail(s))
              ELSE " " \o collapseSpaces(Tail(s))
         ELSE CharAt(s, 1) \o collapseSpaces(Tail(s))

\* String.prototype.trim
RECURSIVE trimStart(_)
trimStart(s) ==
    IF s # "" /\ IsSpace(CharAt(s, 1)) THEN trimStart(Tail(s)) ELSE s

RECURSIVE trimEnd(_)
trimEnd(s) ==
    IF s # "" /\ IsSpace(CharAt(s, Len(s)))
    THEN trimEnd(SubSeq(s, 1, Len(s) - 1))
    ELSE s

trim(s) == trimEnd(trimStart(s))

\* String.prototype.includes
includes(haystack, needle) ==
    \E i \in 0..(Len(haystack) - Len(needle)) :
        SubSeq(haystack, i + 1, i + Len(needle)) = needle

\* Array.prototype.join
RECURSIVE join(_, _)
join(parts, sep) ==
    IF Len(parts) = 0 THEN ""
    ELSE IF Len(parts) = 1 THEN parts[1]
    ELSE parts[1] \o sep \o join(Tail(parts), sep)

\* normalize with the final trim() left out
normalize_noTrim(str) == collapseSpaces(toLowerCase(str))

\* String(str || "").toLowerCase().replace(/\s+/g, " ").trim()
\* An absent (undefined/null) value is modelled as "": `str || ""` makes the
\* two indistinguishable.
normalize(str) == trim(collapseSpaces(toLowerCase(str)))

\* normalize(str).match(/[a-z0-9]+/g) || [] : the maximal runs of [a-z0-9]
RECURSIVE matchTokenRuns(_, _, _)
matchTokenRuns(s, cur, acc) ==
    IF s = ""
    THEN IF cur = "" THEN acc ELSE Append(acc, cur)
    ELSE IF IsTokenChar(CharAt(s, 1))
         THEN matchTokenRuns(Tail(s), cur \o CharAt(s, 1), acc)
         ELSE matchTokenRuns(Tail(s), "", IF cur = "" THEN acc ELSE Append(acc, cur))

tokenize(str) == matchTokenRuns(normalize(str), "", <<>>)

---------------------------------------------------------------------------
(* Synonym table *)

SYNONYM_GROUPS == <<
    <<"ai", <<"ai", "llm", "genai", "gpt", "ml">> >>,
    <<"developer", <<"developer", "developers", "dev", "engineer", "engineering",
                     "software", "coder", "coding", "programmer", "programming">> >>,
    <<"tooling", <<"tooling", "tool", "tools", "sdk", "framework", "frameworks",
                   "platform", "platforms", "stack", "workflow", "workflows", "ide">> >>,
    <<"agent", <<"agent", "agents", "agentic", "assistant", "assistants">> >>,
    <<"api", <<"api", "apis">> >>,
    <<"infrastructure", <<"infrastructure", "infra", "devops", "mlops",
                          "deployment", "deploy">> >> >>

\* SYNONYM_GROUPS.flatMap(([canonical, variants]) =>
\*     [[canonical, canonical], ...variants.map((variant) => [variant, canonical])])
RECURSIVE flatMapGroups(_)
flatMapGroups(groups) ==
    IF Len(groups) = 0 THEN <<>>
    ELSE LET canonical == groups[1][1]
             variants  == groups[1][2]
         IN  <<  <<canonical, canonical>> >>
             \o [i \in 1..Len(variants) |-> <<variants[i], canonical>>]
             \o flatMapGroups(Tail(groups))

TOKEN_ENTRIES == flatMapGroups(SYNONYM_GROUPS)

\* What Object.prototype.constructor (the function Object) is as a string; the
\* model's stand-in for that function value.  No token equals it.
ObjectConstructor == "function Object() { [native code] }"

\* TOKEN_CANONICAL[token].  Object.fromEntries keeps, for a repeated key, the
\* last entry, and builds an ordinary object: a key that is not an own property
\* is looked up on Object.prototype, whose only all-lowercase alphanumeric
\* property name is "constructor".  "" stands for undefined (both are falsy).
OwnTokenCanonical ==
    [key \in {TOKEN_ENTRIES[i][1] : i \in 1..Len(TOKEN_ENTRIES)} |->
        LET own == {i \in 1..Len(TOKEN_ENTRIES) : TOKEN_ENTRIES[i][1] = key}
        IN  TOKEN_ENTRIES[CHOOSE i \in own : \A j \in own : j <= i][2]]

TOKEN_CANONICAL(token) ==
    IF token \in DOMAIN OwnTokenCanonical THEN OwnTokenCanonical[token]
    ELSE IF token = "constructor" THEN ObjectConstructor
    ELSE ""

\* canonicalizeToken without the synonym lookup
canonicalizeToken_noLookup(token) == token

\* TOKEN_CANONICAL[token] || token
canonicalizeToken(token) ==
    LET found == TOKEN_CANONICAL(token) IN IF found # "" THEN found ELSE token

mapCanonicalize(tokens) == [i \in 1..Len(tokens) |-> canonicalizeToken(tokens[i])]

\* tokenize(str).map(canonicalizeToken).join(" ")
canonicalizeText(str) == join(mapCanonicalize(tokenize(str)), " ")

---------------------------------------------------------------------------
(* Search index and scorer *)

\* The keys of `fields` in insertion order (Object.entries / Object.values)
FieldOrder == <<"name", "category", "venue", "event_type", "contributors">>
FieldNames == {FieldOrder[i] : i \in 1..Len(FieldOrder)}

\* An event is a record [name, category, venue, event_type, contributors,
\* date, start_time, event_id]: venue is venue?.name, contributors the
\* sequence of the contributors' names (c?.name || "").
buildSearchIndex(e) ==
    LET fields == [name         |-> normalize(e.name),
                   category     |-> normalize(e.category),
                   venue        |-> normalize(e.venue),
                   event_type   |-> normalize(e.event_type),
                   contributors |-> normalize(join(e.contributors, " "))]
        values == [i \in 1..Len(FieldOrder) |-> fields[FieldOrder[i]]]
        tokensOf(f) == LET toks == mapCanonicalize(tokenize(fields[f]))
                       IN  {toks[i] : i \in 1..Len(toks)}
    IN  [fields        |-> fields,
         tokensByField |-> [f \in FieldNames |-> tokensOf(f)],
         rawBlob       |-> trim(join(values, " ")),
         canonicalBlob |-> trim(join([i \in 1..Len(values) |->
                                         canonicalizeText(values[i])], " "))]

\* Code units of the characters that occur in sorted strings, ascending
CodeUnitOrder ==
    "\t !-0123456789:ABCDEFGHIJKLMNOPQRSTUVWXYZ_abcdefghijklmnopqrstuvwxyz"

\* a < b by UTF-16 code units: the order of Array.prototype.sort() without a
\* comparator
CodeUnit == [c \in CharsOf(CodeUnitOrder) |-> IndexIn(CodeUnitOrder, c)]

RECURSIVE CodeUnitLess(_, _)
CodeUnitLess(a, b) ==
    IF b = "" THEN FALSE
    ELSE IF a = "" THEN TRUE
    ELSE IF CharAt(a, 1) = CharAt(b, 1) THEN CodeUnitLess(Tail(a), Tail(b))
    ELSE CodeUnit[CharAt(a, 1)] < CodeUnit[CharAt(b, 1)]

\* [...set].sort()
RECURSIVE sortStrings(_)
sortStrings(set) ==
    IF set = {} THEN <<>>
    ELSE LET least == CHOOSE x \in set : \A y \in set \ {x} : CodeUnitLess(x, y)
         IN  <<least>> \o sortStrings(set \ {least})

\* the weights of name and contributors exchanged
weights_swapped(field) ==
    CASE field = "name"         -> 4
      [] field = "contributors" -> 5
      [] field = "category"     -> 2
      [] field = "venue"        -> 2
      [] field = "event_type"   -> 2
      [] OTHER                  -> 1

weights(field) ==
    CASE field = "name"         -> 5
      [] field = "contributors" -> 4
      [] field = "category"     -> 2
      [] field = "venue"        -> 2
      [] field = "event_type"   -> 2
      [] OTHER                  -> 1

\* The inner loop of scoreTokenMatches for one token: the fields from
\* position i on, in Object.entries order
RECURSIVE scanFields(_, _, _, _)
scanFields(index, token, i, acc) ==
    IF i > Len(FieldOrder) THEN acc
    ELSE LET field == FieldOrder[i] IN
         IF token \in index.tokensByField[field]
         THEN scanFields(index, token, i + 1,
                         [hitFields     |-> Append(acc.hitFields, field),
                          matchedFields |-> acc.matchedFields \cup {field},
                          score         |-> acc.score + weights(field)])
         ELSE scanFields(index, token, i + 1, acc)

\* The outer loop of scoreTokenMatches
RECURSIVE scanTokens(_, _, _, _)
scanTokens(index, queryTokens, k, acc) ==
    IF k > Len(queryTokens) THEN acc
    ELSE LET token == queryTokens[k]
             hit   == scanFields(index, token, 1,
                                 [hitFields     |-> <<>>,
                                  matchedFields |-> acc.matchedFields,
                                  score         |-> acc.score])
         IN  scanTokens(index, queryTokens, k + 1,
                        [matchedTerms  |-> IF Len(hit.hitFields) > 0
                                           THEN Append(acc.matchedTerms, token)
                                           ELSE acc.matchedTerms,
                         matchedFields |-> hit.matchedFields,
                         score         |-> hit.score])

\* scoreTokenMatches with `score += matchedTerms.length` left out
scoreTokenMatches_noTermCount(index, queryTokens) ==
    LET scanned == scanTokens(index, queryTokens, 1,
                              [matchedTerms |-> <<>>, matchedFields |-> {}, score |-> 0])
    IN  [score          |-> scanned.score,
         matched_terms  |-> scanned.matchedTerms,
         matched_fields |-> sortStrings(scanned.matchedFields)]

\* scoreTokenMatches(index, queryTokens)
scoreTokenMatches(index, queryTokens) ==
    LET scanned == scanTokens(index, queryTokens, 1,
                              [matchedTerms |-> <<>>, matchedFields |-> {}, score |-> 0])
    IN  [score          |-> scanned.score + Len(scanned.matchedTerms),
         matched_terms  |-> scanned.matchedTerms,
         matched_fields |-> sortStrings(scanned.matchedFields)]

\* The query tokens with the repeated ones kept
dedupe_keepsAll(tokens, acc) == acc \o tokens

\* [...new Set(tokens)] : first occurrences, in order
RECURSIVE dedupe(_, _)
dedupe(tokens, acc) ==
    IF Len(tokens) = 0 THEN acc
    ELSE dedupe(Tail(tokens),
                IF \E i \in 1..Len(acc) : acc[i] = tokens[1]
                THEN acc ELSE Append(acc, tokens[1]))

queryTokensOf(normalizedQuery) == dedupe(mapCanonicalize(tokenize(normalizedQuery)), <<>>)

NoMatch == [matches |-> FALSE, score |-> 0, matched_terms |-> <<>>, matched_fields |-> <<>>]
PassThrough == [matches |-> TRUE, score |-> 0, matched_terms |-> <<>>, matched_fields |-> <<>>]

\* Matched without the bonus of the mode
Matched_noBonus(scored, bonus) ==
    [matches        |-> TRUE,
     score          |-> scored.score,
     matched_terms  |-> scored.matched_terms,
     matched_fields |-> scored.matched_fields]

Matched(scored, bonus) ==
    [matches        |-> TRUE,
     score          |-> scored.score + bonus,
     matched_terms  |-> scored.matched_terms,
     matched_fields |-> scored.matched_fields]

\* the phrase test left out: every event passes
phraseMatches_always(index, normalizedQuery) == TRUE

\* the phrase test without the canonical comparison
phraseMatches_rawOnly(index, normalizedQuery) == includes(index.rawBlob, normalizedQuery)

\* The phrase test: rawMatch || canonicalMatch
phraseMatches(index, normalizedQuery) ==
    LET rawMatch       == includes(index.rawBlob, normalizedQuery)
        canonicalQuery == canonicalizeText(normalizedQuery)
        canonicalMatch == IF canonicalQuery # ""
                          THEN includes(index.canonicalBlob, canonicalQuery)
                          ELSE FALSE
    IN  rawMatch \/ canonicalMatch

\* "all" rejecting only when no term matched at all
allRejects_whenNoTerm(scored, queryTokens) == Len(scored.matched_terms) = 0

\* scored.matched_terms.length !== queryTokens.length
allRejects(scored, queryTokens) == Len(scored.matched_terms) # Len(queryTokens)

\* "any" without its rejection test
anyRejects_never(scored) == FALSE

\* scored.matched_terms.length === 0
anyRejects(scored) == Len(scored.matched_terms) = 0

analyzeQuery(e, q, mode) ==
    LET normalizedQuery == normalize(q) IN
    IF normalizedQuery = "" THEN PassThrough
    ELSE
    LET index       == buildSearchIndex(e)
        queryTokens == queryTokensOf(normalizedQuery)
    IN
    IF mode = "phrase"
    THEN IF ~phraseMatches(index, normalizedQuery)
         THEN NoMatch
         ELSE Matched(scoreTokenMatches(index, queryTokens), 4)
    ELSE LET scored == scoreTokenMatches(index, queryTokens) IN
         IF mode = "all" /\ allRejects(scored, queryTokens) THEN NoMatch
         ELSE IF mode = "any" /\ anyRejects(scored) THEN NoMatch
         ELSE Matched(scored, IF mode = "all" THEN 3 ELSE 0)

---------------------------------------------------------------------------
(* Calls of analyzeQuery *)

\* QUERY_MODES with one more mode
QUERY_MODES_withFuzzy == {"any", "all", "phrase", "fuzzy"}

QUERY_MODES == {"any", "all", "phrase"}

\* The events analyzeQuery is called with: every combination of these field
\* values ("" is an empty or absent field)
NameTexts == {"", "AI and the Future", "LLM Party", "dev  Dev"}
CategoryTexts == {"", "Panel"}
VenueNames == {"", "Dev Hall"}
EventTypes == {"", "panel"}
ContributorLists == {<<>>, <<"Dev Patel">>, <<"Al Gore", "GPT Panel">>}

MakeEvent(name, category, venue, eventType, contributors) ==
    [name |-> name, category |-> category, venue |-> venue,
     event_type |-> eventType, contributors |-> contributors,
     date |-> "", start_time |-> "", event_id |-> "E1"]

CoreEvents ==
    {MakeEvent(n, c, v, t, cs) :
        n \in NameTexts, c \in CategoryTexts, v \in VenueNames,
        t \in EventTypes, cs \in ContributorLists}

\* The queries: up to MaxQueryWords words separated by single spaces, and
\* queries that are blank, hold no token, or hold other separators
MaxQueryWords == 2
QueryWords == {"llm", "Dev", "panel"}
OtherQueries == {"", " \t", "-", "ai", "art", "constructor", "future  panel", "AI-dev", "gpt!"}

RECURSIVE WordQueries(_)
WordQueries(n) ==
    IF n = 0 THEN {}
    ELSE IF n = 1 THEN QueryWords
    ELSE WordQueries(n - 1)
         \cup {q \o " " \o w : q \in WordQueries(n - 1), w \in QueryWords}

CoreQueries == WordQueries(MaxQueryWords) \cup OtherQueries

NoResult == [matches |-> FALSE, score |-> -1, matched_terms |-> <<>>, matched_fields |-> <<>>]

\* No request is being handled
NoRequest ==
    [path |-> "", date |-> "", category |-> "", venue |-> "", type |-> "",
     contributor |-> "", q |-> "", q_mode |-> "", limit |-> "", offset |-> "",
     topic |-> "", per_day |-> ""]
NoResponse == [status |-> 0]

\* handleShortlist has not run
ShortlistIdle ==
    /\ dates = <<>>
    /\ used = [query |-> "", mode |-> ""]
    /\ days = <<>>
    /\ evals = <<>>

\* A call of getSnapshot that has not been made
NoFetch == [ok |-> FALSE, status |-> 0]
NoSnapshot == [festival_year |-> 0]
NoCall == [pc |-> "idle", now |-> 0, res |-> NoFetch, ret |-> NoSnapshot]

\* The module variables of the cache as the module's top level leaves them,
\* and no call of getSnapshot made
CacheIdle ==
    /\ _cache = <<>>
    /\ _cacheMeta = <<>>
    /\ _cacheExpiry = 0
    /\ clock = 0
    /\ calls = <<>>

\* fetchJsonWithRetry has not been called
RetryIdle ==
    /\ RETRIES = 4
    /\ attempt = 0
    /\ lastError = ""
    /\ fetchPc = "idle"
    /\ fetchLog = <<>>
    /\ fetchOut = [threw |-> FALSE, value |-> ""]

\* mapWithConcurrency has not been called
NoDetails == [success |-> <<>>, failed |-> <<>>, resolved |-> FALSE]
MapIdle ==
    /\ CONCURRENCY = 8
    /\ eventIds = <<>>
    /\ records = <<>>
    /\ nextIndex = 0
    /\ workers = <<>>
    /\ invoked = <<>>
    /\ details = NoDetails

\* buildChangeRecords has not been called
NoChanges == [records |-> <<>>, called |-> FALSE]
ChangesIdle ==
    /\ currentEvents = <<>>
    /\ previousEventsById = <<>>
    /\ changeSet = NoChanges

ScriptIdle == RetryIdle /\ MapIdle /\ ChangesIdle

RestIdle == CacheIdle /\ ScriptIdle

\* No second request
NoOther == [req |-> NoRequest, pc |-> "done", hits |-> <<>>, response |-> NoResponse]

ApiIdle ==
    /\ ShortlistIdle
    /\ other = NoOther
    /\ RestIdle
    /\ feed = <<>>
    /\ req = NoRequest
    /\ pc = "idle"
    /\ hits = <<>>
    /\ response = NoResponse

Init ==
    /\ event \in CoreEvents
    /\ query \in CoreQueries
    /\ qMode \in QUERY_MODES
    /\ result = NoResult
    /\ ApiIdle

\* meta = analyzeQuery(e, q, qMode)
CallAnalyzeQuery ==
    /\ result = NoResult
    /\ result' = analyzeQuery(event, query, qMode)
    /\ UNCHANGED <<event, query, qMode>>
    /\ UNCHANGED apiVars
    /\ UNCHANGED shortlistVars
    /\ UNCHANGED other
    /\ UNCHANGED restVars

Next == CallAnalyzeQuery

vars == <<event, query, qMode, result, feed, req, pc, hits, response, dates, used, days, evals,
         other, restVars>>

Spec == Init /\ [][Next]_vars

---------------------------------------------------------------------------
(* Properties of analyzeQuery, stated on the call in the state *)

Returned == result # NoResult

\* A query that is empty or only whitespace
IsBlank(q) == \A i \in 1..Len(q) : CharAt(q, i) \in SpaceChars

\* The canonical tokens of a string, as a set
CanonicalTokenSet(str) ==
    LET toks == mapCanonicalize(tokenize(str)) IN {toks[i] : i \in 1..Len(toks)}

\* t is in one of the five per-field canonical token sets of the index
TokenInSomeField(index, t) == \E f \in FieldNames : t \in index.tokensByField[f]

\* C1: in "any" mode with a non-blank query, matches is true exactly when some
\* canonical query token is in one of the event's five field token sets
C1_AnyMatchesIffSomeTokenHits ==
    (Returned /\ qMode = "any" /\ ~IsBlank(query)) =>
        LET index == buildSearchIndex(event) IN
        result.matches <=> \E t \in CanonicalTokenSet(query) : TokenInSomeField(index, t)

C1_Witness ==
    /\ Returned /\ qMode = "any" /\ ~IsBlank(query)
    /\ result.matches
    /\ \E t \in CanonicalTokenSet(query) : ~TokenInSomeField(buildSearchIndex(event), t)

\* C2: in "all" mode with a non-blank query, matches is true exactly when every
\* canonical query token is in some field token set; a failed match has score 0
C2_AllMatchesIffEveryTokenHits ==
    (Returned /\ qMode = "all" /\ ~IsBlank(query)) =>
        LET index == buildSearchIndex(event) IN
        /\ result.matches <=> \A t \in CanonicalTokenSet(query) : TokenInSomeField(index, t)
        /\ ~result.matches => result.score = 0

C2_Witness ==
    /\ Returned /\ qMode = "all" /\ ~IsBlank(query)
    /\ ~result.matches /\ result.score = 0
    /\ \E t \in CanonicalTokenSet(query) : TokenInSomeField(buildSearchIndex(event), t)
    /\ \E t \in CanonicalTokenSet(query) : ~TokenInSomeField(buildSearchIndex(event), t)

RawSubstring(index, q) == includes(index.rawBlob, normalize(q))
CanonicalSubstring(index, q) == includes(index.canonicalBlob, canonicalizeText(q))

\* C3 as claimed: in "phrase" mode matches is true exactly when the normalized
\* query is a substring of rawBlob or the canonicalized query is a substring of
\* canonicalBlob
C3_PhraseIffEitherSubstring ==
    (Returned /\ qMode = "phrase") =>
        LET index == buildSearchIndex(event) IN
        result.matches <=> (RawSubstring(index, query) \/ CanonicalSubstring(index, query))

\* C3 amended: in "phrase" mode matches is true exactly when the normalized
\* query is a substring of rawBlob, or the canonicalized query is not empty and
\* is a substring of canonicalBlob
C3_PhraseIffSubstringOfNonEmptyCanonical ==
    (Returned /\ qMode = "phrase") =>
        LET index == buildSearchIndex(event) IN
        result.matches <=>
            \/ RawSubstring(index, query)
            \/ canonicalizeText(query) # "" /\ CanonicalSubstring(index, query)

\* a synonym phrase match: only the canonical comparison succeeds
C3_Witness ==
    /\ Returned /\ qMode = "phrase" /\ ~IsBlank(query)
    /\ result.matches
    /\ ~RawSubstring(buildSearchIndex(event), query)
    /\ CanonicalSubstring(buildSearchIndex(event), query)

\* C4: whenever the call in "all" mode matches, the same event and query match
\* in "any" mode
C4_AllImpliesAny ==
    (Returned /\ qMode = "all" /\ result.matches) =>
        analyzeQuery(event, query, "any").matches

\* C5: a blank query matches in every mode with score 0 and no matched terms
\* or fields
C5_BlankQueryPassesThrough ==
    (Returned /\ IsBlank(query)) =>
        result = [matches |-> TRUE, score |-> 0,
                  matched_terms |-> <<>>, matched_fields |-> <<>>]

C5_Witness == Returned /\ query = " \t" /\ qMode = "phrase" /\ result.matches

\* The weights as the claim lists them
ClaimedWeight(f) ==
    CASE f = "name" -> 5 [] f = "contributors" -> 4 [] f = "category" -> 2
      [] f = "venue" -> 2 [] f = "event_type" -> 2

RECURSIVE SumOfWeights(_)
SumOfWeights(pairs) ==
    IF pairs = {} THEN 0
    ELSE LET p == CHOOSE x \in pairs : TRUE
         IN  ClaimedWeight(p[2]) + SumOfWeights(pairs \ {p})

HitPairs(index, q) ==
    {p \in CanonicalTokenSet(q) \X FieldNames : p[1] \in index.tokensByField[p[2]]}

TokenListOf == [q \in CoreQueries |-> queryTokensOf(normalize(q))]

SameCanonicalTokens(q1, q2) == TokenListOf[q1] = TokenListOf[q2]

NameHasTokenAI(e) ==
    LET toks == tokenize(e.name) IN \E i \in 1..Len(toks) : toks[i] = "ai"

LlmAndAiMatch ==
    (Returned /\ qMode = "any" /\ query \in {"llm", "ai"} /\ NameHasTokenAI(event)) =>
        /\ result.matches
        /\ \E i \in 1..Len(result.matched_terms) : result.matched_terms[i] = "ai"

\* C7 as claimed: "llm" and "ai" match an event whose name holds the token AI,
\* and in "any" mode any two queries with equal canonical token lists give
\* identical results
C7_EqualTokensEqualResults ==
    /\ LlmAndAiMatch
    /\ (Returned /\ qMode = "any") =>
          \A q2 \in CoreQueries :
              SameCanonicalTokens(query, q2) => analyzeQuery(event, q2, "any") = result

\* C7 amended: the same, for two queries that are both non-blank
C7_EqualTokensEqualResultsNonBlank ==
    /\ LlmAndAiMatch
    /\ (Returned /\ qMode = "any" /\ ~IsBlank(query)) =>
          \A q2 \in CoreQueries :
              (~IsBlank(q2) /\ SameCanonicalTokens(query, q2))
                  => analyzeQuery(event, q2, "any") = result

C7_Witness ==
    /\ Returned /\ qMode = "any" /\ query = "llm" /\ NameHasTokenAI(event)
    /\ result.matches
    /\ \E q2 \in CoreQueries \ {query} : ~IsBlank(q2) /\ SameCanonicalTokens(query, q2)

\* The tokens of the call: those of the query and of the event's fields
RawTokensOfCall ==
    LET texts == <<query, event.name, event.category, event.venue, event.event_type,
                   join(event.contributors, " ")>>
    IN  UNION {{tokenize(texts[i])[k] : k \in 1..Len(tokenize(texts[i]))} :
                 i \in 1..Len(texts)}

GroupCanonicals == {SYNONYM_GROUPS[g][1] : g \in 1..Len(SYNONYM_GROUPS)}
GroupVariants(g) == {SYNONYM_GROUPS[g][2][i] : i \in 1..Len(SYNONYM_GROUPS[g][2])}
InSomeGroup(t) ==
    t \in GroupCanonicals \/ \E g \in 1..Len(SYNONYM_GROUPS) : t \in GroupVariants(g)

\* C8: canonicalizeToken is idempotent, every canonical term maps to itself, no
\* canonical term is a variant of another group, and a token in no group is
\* returned unchanged
C8_CanonicalizeContract ==
    /\ \A t \in RawTokensOfCall \cup GroupCanonicals :
          canonicalizeToken(canonicalizeToken(t)) = canonicalizeToken(t)
    /\ \A c \in GroupCanonicals : canonicalizeToken(c) = c
    /\ \A g \in 1..Len(SYNONYM_GROUPS) :
          \A c \in GroupCanonicals \ {SYNONYM_GROUPS[g][1]} : c \notin GroupVariants(g)
    /\ \A t \in RawTokensOfCall : ~InSomeGroup(t) => canonicalizeToken(t) = t

---------------------------------------------------------------------------
(* GET /api/events *)

\* matches(haystack, needle)
matches(haystack, needle) ==
    IF needle = "" THEN TRUE ELSE includes(normalize(haystack), normalize(needle))

\* Number.parseInt(raw || "", 10): leading whitespace, an optional sign, then
\* the leading decimal digits; NaN when there is none
NaN == [nan |-> TRUE]
Num(n) == [nan |-> FALSE, value |-> n]

RECURSIVE leadingDigits(_, _, _)
leadingDigits(s, seen, acc) ==
    IF s # "" /\ CharAt(s, 1) \in CharsOf(DigitChars)
    THEN leadingDigits(Tail(s), TRUE, 10 * acc + (IndexIn(DigitChars, CharAt(s, 1)) - 1))
    ELSE IF seen THEN Num(acc) ELSE NaN

parseInt(raw) ==
    LET s        == trimStart(raw)
        negative == s # "" /\ CharAt(s, 1) = "-"
        signed   == s # "" /\ CharAt(s, 1) \in {"-", "+"}
        digits   == leadingDigits(IF signed THEN Tail(s) ELSE s, FALSE, 0)
    IN  IF digits = NaN THEN NaN
        ELSE IF negative THEN Num(0 - digits.value) ELSE digits

\* Every call passes maxValue (the default, POSITIVE_INFINITY, is never used)
parsePositiveInt(raw, fallback, maxValue) ==
    LET parsed == parseInt(raw) IN
    IF parsed = NaN \/ parsed.value <= 0 THEN fallback
    ELSE IF maxValue < parsed.value THEN maxValue
    ELSE parsed.value

parseNonNegativeInt(raw, fallback) ==
    LET parsed == parseInt(raw) IN
    IF parsed = NaN \/ parsed.value < 0 THEN fallback ELSE parsed.value

\* arr.slice(offset, offset + limit)
slice(arr, from, to) ==
    SubSeq(arr, from + 1, IF to < Len(arr) THEN to ELSE Len(arr))

paginate(arr, limit, offset) ==
    LET items == slice(arr, offset, offset + limit) IN
    [total |-> Len(arr), offset |-> offset, limit |-> limit,
     count |-> Len(items), results |-> items]

\* The collation order of the characters that occur in event ids and start
\* times (punctuation before digits before letters)
CollationOrder == "-:0123456789ABCDEFGHIJKLMNOPQRSTUVWXYZ"
Collation == [c \in CharsOf(CollationOrder) |-> IndexIn(CollationOrder, c)]

\* a.localeCompare(b), for strings of those characters: negative, 0 or positive
RECURSIVE localeCompare(_, _)
localeCompare(a, b) ==
    IF a = "" /\ b = "" THEN 0
    ELSE IF a = "" THEN -1
    ELSE IF b = "" THEN 1
    ELSE IF CharAt(a, 1) = CharAt(b, 1) THEN localeCompare(Tail(a), Tail(b))
    ELSE IF Collation[CharAt(a, 1)] < Collation[CharAt(b, 1)] THEN -1 ELSE 1

\* let meta = null
NullMeta == [null |-> TRUE]

\* a.meta?.score || 0
metaScore(row) == IF row.meta = NullMeta THEN 0 ELSE row.meta.score

\* searchSort with the scores compared the other way round
searchSort_scoreAscending(a, b) ==
    LET scoreA == metaScore(a)
        scoreB == metaScore(b)
        startA == a.event.start_time
        startB == b.event.start_time
    IN  IF scoreB # scoreA THEN scoreA - scoreB
        ELSE IF startA # startB THEN localeCompare(startA, startB)
        ELSE localeCompare(a.event.event_id, b.event.event_id)

searchSort(a, b) ==
    LET scoreA == metaScore(a)
        scoreB == metaScore(b)
        startA == a.event.start_time
        startB == b.event.start_time
    IN  IF scoreB # scoreA THEN scoreB - scoreA
        ELSE IF startA # startB THEN localeCompare(startA, startB)
        ELSE localeCompare(a.event.event_id, b.event.event_id)

\* shortlistSort with equal rank scores left as they are
shortlistSort_rankOnly(a, b) == b.rank_score - a.rank_score

\* The comparator of the sort of handleShortlist
shortlistSort(a, b) ==
    IF b.rank_score # a.rank_score THEN b.rank_score - a.rank_score
    ELSE searchSort(a, b)

\* The call of the comparator function a sort was given
compare(comparator, a, b) ==
    IF comparator = "shortlistSort" THEN shortlistSort(a, b) ELSE searchSort(a, b)

\* One insertion of the stable sort: row goes behind every row it does not
\* precede
RECURSIVE insertSorted(_, _, _)
insertSorted(sorted, row, comparator) ==
    IF Len(sorted) = 0 THEN <<row>>
    ELSE IF compare(comparator, row, sorted[1]) < 0 THEN <<row>> \o sorted
    ELSE <<sorted[1]>> \o insertSorted(Tail(sorted), row, comparator)

\* Array.prototype.sort(comparator): a stable sort
RECURSIVE arraySort(_, _, _)
arraySort(rows, sorted, comparator) ==
    IF Len(rows) = 0 THEN sorted
    ELSE arraySort(Tail(rows), insertSorted(sorted, rows[1], comparator), comparator)

\* hits.sort(searchSort)
sortHits(list) == arraySort(list, <<>>, "searchSort")

\* (e.contributors || []).some(c => matches(c.name, contributor))
someContributor(e, contributor) ==
    \E i \in 1..Len(e.contributors) : matches(e.contributors[i], contributor)

\* The filters of the loop of handleEvents: FALSE where it says `continue`
passesFilters(e, r) ==
    /\ ~(r.date # "" /\ e.date # r.date)
    /\ ~(r.type # "" /\ e.event_type # r.type)
    /\ ~(r.category # "" /\ ~matches(e.category, r.category))
    /\ ~(r.venue # "" /\ ~matches(e.venue, r.venue))
    /\ ~(r.contributor # "" /\ ~someContributor(e, r.contributor))

\* The loop of handleEvents over the events from position i on
RECURSIVE collectHits(_, _, _, _, _)
collectHits(events, i, r, mode, pushed) ==
    IF i > Len(events) THEN pushed
    ELSE LET e == events[i] IN
         IF ~passesFilters(e, r) THEN collectHits(events, i + 1, r, mode, pushed)
         ELSE IF r.q = ""
              THEN collectHits(events, i + 1, r, mode,
                               Append(pushed, [event |-> e, meta |-> NullMeta]))
              ELSE LET meta == analyzeQuery(e, r.q, mode) IN
                   IF ~meta.matches THEN collectHits(events, i + 1, r, mode, pushed)
                   ELSE collectHits(events, i + 1, r, mode,
                                    Append(pushed, [event |-> e, meta |-> meta]))

\* resultOf without the three fields of the match
resultOf_bare(row) == row.event

\* hits.map(({ event, meta }) => ...): a row without meta gives the event
\* itself, the others { ...event, score, matched_terms, matched_fields }
resultOf(row) ==
    IF row.meta = NullMeta THEN row.event
    ELSE [score          |-> row.meta.score,
          matched_terms  |-> row.meta.matched_terms,
          matched_fields |-> row.meta.matched_fields] @@ row.event

\* normalize(p.get("q_mode") || "any")
requestMode(r) == normalize(IF r.q_mode # "" THEN r.q_mode ELSE "any")

\* The events that reach `if (q)` in the loop of handleEvents
RECURSIVE filteredEvents(_, _)
filteredEvents(events, r) ==
    IF Len(events) = 0 THEN <<>>
    ELSE (IF passesFilters(events[1], r) THEN <<events[1]>> ELSE <<>>)
         \o filteredEvents(Tail(events), r)

\* The calls of analyzeQuery in the loop of handleEvents: none without q
searchEvals(events, r) ==
    IF r.q = "" \/ Len(filteredEvents(events, r)) = 0 THEN <<>>
    ELSE <<[date |-> r.date, query |-> r.q, mode |-> requestMode(r),
            over |-> filteredEvents(events, r)]>>

\* The rows of handleEvents after `if (q) hits.sort(searchSort)`
eventsRows(rows, r) == IF r.q # "" THEN sortHits(rows) ELSE rows

\* The body of the response of handleEvents, from the rows of the loop
eventsBody(rows, r) ==
    LET results == [i \in 1..Len(rows) |-> resultOf(eventsRows(rows, r)[i])]
    IN  paginate(results, parsePositiveInt(r.limit, 50, 200),
                 parseNonNegativeInt(r.offset, 0))

\* json(data, status) and error(message, status)
json(data, status) == [status |-> status, body |-> data]
error(message, status) == json([error |-> message, status |-> status], status)

---------------------------------------------------------------------------
(* The feed and the requests *)

EventCatalog == {
    [event_id |-> "E10", name |-> "AI Party", category |-> "Panel", venue |-> "Dev Hall",
     event_type |-> "panel", contributors |-> <<"Al Gore">>,
     date |-> "2026-03-14", start_time |-> "2026-03-14T10:00:00-05:00"],
    [event_id |-> "E2", name |-> "LLM Talk", category |-> "", venue |-> "",
     event_type |-> "talk", contributors |-> <<>>,
     date |-> "2026-03-14", start_time |-> "2026-03-14T10:00:00-05:00"],
    [event_id |-> "E3", name |-> "GPT Demo", category |-> "", venue |-> "Dev Hall",
     event_type |-> "", contributors |-> <<>>,
     date |-> "unknown", start_time |-> ""],
    [event_id |-> "E4", name |-> "AI Dev Meetup", category |-> "", venue |-> "",
     event_type |-> "party", contributors |-> <<"GPT Bot">>,
     date |-> "2026-03-14", start_time |-> "2026-03-14T09:00:00-05:00"],
    [event_id |-> "E5", name |-> "Art Party", category |-> "Code", venue |-> "",
     event_type |-> "party", contributors |-> <<"Al Gore">>,
     date |-> "2026-03-13", start_time |-> "2026-03-13T21:00:00-05:00"],
    [event_id |-> "E6", name |-> "Yoga", category |-> "", venue |-> "",
     event_type |-> "", contributors |-> <<>>,
     date |-> "", start_time |-> ""] }

\* The feeds: up to MaxFeed different events of the catalog, in every order
MaxFeed == 3

RECURSIVE FeedsOfLength(_)
FeedsOfLength(n) ==
    IF n = 0 THEN {<<>>}
    ELSE {Append(f, e) : f \in FeedsOfLength(n - 1), e \in EventCatalog}

IsDuplicateFree(f) == \A i, j \in 1..Len(f) : i # j => f[i] # f[j]

Feeds == UNION {{f \in FeedsOfLength(n) : IsDuplicateFree(f)} : n \in 0..MaxFeed}

EventsRequest == [NoRequest EXCEPT !.path = "/events"]

EventsRequests ==
    {[EventsRequest EXCEPT !.q = q, !.q_mode = m] :
        q \in {"", "ai", "llm party", "-"}, m \in {"", "ALL", "phrase ", "fuzzy"}}
    \cup {[EventsRequest EXCEPT !.q = "ai", !.date = "2026-03-14"],
          [EventsRequest EXCEPT !.q = "ai", !.type = "panel"],
          [EventsRequest EXCEPT !.category = "pan"],
          [EventsRequest EXCEPT !.venue = "dev  hall"],
          [EventsRequest EXCEPT !.q = "ai", !.contributor = "bot"],
          [EventsRequest EXCEPT !.q = "ai", !.q_mode = " "],
          [EventsRequest EXCEPT !.q = "ai", !.limit = "2"],
          [EventsRequest EXCEPT !.q = "ai", !.limit = "0", !.offset = "1"],
          [EventsRequest EXCEPT !.q = "gpt", !.limit = "500", !.offset = "-1"]}

CoreIdle ==
    /\ event = MakeEvent("", "", "", "", <<>>)
    /\ query = ""
    /\ qMode = "any"
    /\ result = NoResult

InitEvents ==
    /\ CoreIdle
    /\ RestIdle
    /\ other = NoOther
    /\ ShortlistIdle
    /\ feed \in Feeds
    /\ req \in EventsRequests
    /\ pc = "start"
    /\ hits = <<>>
    /\ response = NoResponse

\* handleEvents up to `await getEvents(env)`: the parameters are read and an
\* invalid q_mode is answered with 400
EventsValidate ==
    /\ pc = "start" /\ req.path = "/events"
    /\ IF requestMode(req) \notin QUERY_MODES
       THEN /\ response' = error("Invalid q_mode. Use one of: any, all, phrase", 400)
            /\ pc' = "done"
       ELSE /\ pc' = "getSnapshot"
            /\ UNCHANGED response
    /\ UNCHANGED <<feed, req, hits>>
    /\ UNCHANGED coreVars
    /\ UNCHANGED other
    /\ UNCHANGED restVars
    /\ UNCHANGED shortlistVars

\* getSnapshot resolves, from the cache or from a fetch, with the feed's events
GetSnapshotResolves ==
    /\ pc = "getSnapshot"
    /\ pc' = "loaded"
    /\ UNCHANGED <<feed, req, hits, response>>
    /\ UNCHANGED coreVars
    /\ UNCHANGED other
    /\ UNCHANGED restVars
    /\ UNCHANGED shortlistVars

\* getSnapshot throws: the fetch of the feed was not ok
GetSnapshotThrows ==
    /\ pc = "getSnapshot"
    /\ pc' = "threw"
    /\ UNCHANGED <<feed, req, hits, response>>
    /\ UNCHANGED coreVars
    /\ UNCHANGED other
    /\ UNCHANGED restVars
    /\ UNCHANGED shortlistVars

\* onRequest after the handler threw: `return handleEvents(url, env)` and
\* `return handleShortlist(url, env)` hand the handler's promise over without
\* awaiting it, so the try block is left before the promise rejects, the catch
\* block does not run and the promise of onRequest rejects with no Response
onRequestRejects ==
    /\ pc = "threw"
    /\ pc' = "rejected"
    /\ UNCHANGED <<feed, req, hits, response>>
    /\ UNCHANGED coreVars
    /\ UNCHANGED other
    /\ UNCHANGED restVars
    /\ UNCHANGED shortlistVars

\* handleEvents after the await: the loop, the sort, the page
EventsRespond ==
    /\ pc = "loaded" /\ req.path = "/events"
    /\ hits' = collectHits(feed, 1, req, requestMode(req), <<>>)
    /\ response' = json(eventsBody(hits', req), 200)
    /\ evals' = evals \o searchEvals(feed, req)
    /\ pc' = "done"
    /\ UNCHANGED <<feed, req, dates, used, days>>
    /\ UNCHANGED coreVars
    /\ UNCHANGED other
    /\ UNCHANGED restVars

NextEvents ==
    \/ EventsValidate
    \/ GetSnapshotResolves
    \/ GetSnapshotThrows
    \/ onRequestRejects
    \/ EventsRespond

SpecEvents == InitEvents /\ [][NextEvents]_vars

---------------------------------------------------------------------------
(* Properties of the search response *)

SearchAnswered == pc = "done" /\ response.status = 200 /\ req.path = "/events"

\* a sorts strictly before b, character by character in collation order, a
\* proper prefix first
StringBefore(a, b) ==
    \E k \in 0..Len(a) :
        /\ k <= Len(b)
        /\ SubSeq(a, 1, k) = SubSeq(b, 1, k)
        /\ \/ k = Len(a) /\ k < Len(b)
           \/ /\ k < Len(a) /\ k < Len(b)
              /\ Collation[CharAt(a, k + 1)] < Collation[CharAt(b, k + 1)]

\* x comes before y: score descending, then start_time ascending (an absent
\* start time is ""), then event_id ascending
RankedBefore(x, y) ==
    \/ x.score > y.score
    \/ x.score = y.score /\ StringBefore(x.start_time, y.start_time)
    \/ /\ x.score = y.score /\ x.start_time = y.start_time
       /\ StringBefore(x.event_id, y.event_id)

\* The orders of a list of n rows
Reordered(list, p) == [i \in 1..Len(list) |-> list[p[i]]]

\* C9: the results of a search with q are in the order score descending, start
\* time ascending, event id ascending, and are the same for every order of
\* the matching rows
C9_ResultsOrderedAndOrderIndependent ==
    (SearchAnswered /\ req.q # "") =>
        LET results == response.body.results IN
        /\ \A i, j \in 1..Len(results) : i < j => RankedBefore(results[i], results[j])
        /\ \A p \in Permutations(1..Len(hits)) :
              eventsBody(Reordered(hits, p), req) = response.body

\* three matches of equal score: the one without start time first, the two
\* with the same start time in the order of their ids, not the order found
C9_Witness ==
    /\ SearchAnswered /\ req.q = "ai" /\ req.limit = ""
    /\ Len(hits) = 3
    /\ response.body.count = 3
    /\ response.body.results[1].start_time = ""
    /\ response.body.results[2].event_id = "E10"
    /\ response.body.results[3].event_id = "E2"
    /\ hits[1].event.event_id = "E2"


---------------------------------------------------------------------------
(* GET /api/shortlist *)

\* termBoost without the look into the blob
termBoost_nameOnly(name, blob, term) ==
    LET normalizedTerm == normalize(term)
    IN  IF normalizedTerm = "" THEN 0
        ELSE IF includes(name, normalizedTerm) THEN 3
        ELSE 0

\* One term of the loop of shortlistBoost
termBoost(name, blob, term) ==
    LET normalizedTerm == normalize(term)
    IN  IF normalizedTerm = "" THEN 0
        ELSE IF includes(name, normalizedTerm) THEN 3
        ELSE IF includes(blob, normalizedTerm) THEN 1
        ELSE 0

RECURSIVE sumTermBoosts(_, _, _)
sumTermBoosts(name, blob, terms) ==
    IF Len(terms) = 0 THEN 0
    ELSE termBoost(name, blob, terms[1]) + sumTermBoosts(name, blob, Tail(terms))

shortlistBoost(e, rankingTerms) ==
    LET name == normalize(e.name)
        blob == normalize(join(<<e.name, e.category, e.event_type, e.venue>>
                               \o e.contributors, " "))
    IN  sumTermBoosts(name, blob, rankingTerms)
        + (IF e.event_type = "panel" THEN 2 ELSE 0)

\* The one entry of TOPIC_PRESETS
AiDeveloperTooling ==
    [slug           |-> "ai-developer-tooling",
     primary_query  |-> "AI developer tooling",
     primary_mode   |-> "any",
     fallback_query |-> "AI",
     fallback_mode  |-> "any",
     ranking_terms  |-> <<"developer", "tooling", "agent", "api", "platform",
                          "engineering", "software", "code", "coding", "llm",
                          "infrastructure", "devops", "mlops", "sdk", "framework">>]

\* The keys that an object literal inherits and that normalize can return:
\* their values are truthy and have none of the fields of a preset
InheritedKeys == {"constructor", "__proto__"}

\* A value without the fields of a preset: every field reads as undefined,
\* written "" (and no ranking terms, as `rankingTerms || []`)
NoPresetFields ==
    [slug |-> "", primary_query |-> "", primary_mode |-> "", fallback_query |-> "",
     fallback_mode |-> "", ranking_terms |-> <<>>]

\* str.replace(/-/g, " ")
replaceDashes(str) ==
    [i \in 1..Len(str) |-> IF CharAt(str, i) = "-" THEN " " ELSE CharAt(str, i)]

RECURSIVE concatChars(_)
concatChars(chars) ==
    IF Len(chars) = 0 THEN "" ELSE chars[1] \o concatChars(Tail(chars))

\* The preset built for a topic that is no key of TOPIC_PRESETS
genericPreset(topicRaw) ==
    [slug           |-> IF topicRaw # "" THEN topicRaw ELSE "custom",
     primary_query  |-> concatChars(replaceDashes(IF topicRaw # "" THEN topicRaw ELSE "ai")),
     primary_mode   |-> "any",
     fallback_query |-> "AI",
     fallback_mode  |-> "any",
     ranking_terms  |-> <<"developer", "tooling", "agent", "api", "platform", "code",
                          "llm", "infrastructure">>]

\* normalize(url.searchParams.get("topic") || "ai-developer-tooling")
topicRawOf(r) == normalize(IF r.topic # "" THEN r.topic ELSE "ai-developer-tooling")

\* TOPIC_PRESETS[topicRaw] || { ... }
presetOf(topicRaw) ==
    IF topicRaw = "ai-developer-tooling" THEN AiDeveloperTooling
    ELSE IF topicRaw \in InheritedKeys THEN NoPresetFields
    ELSE genericPreset(topicRaw)

\* parsePositiveInt(url.searchParams.get("per_day"), 5, 20)
perDayOf(r) == parsePositiveInt(r.per_day, 5, 20)

\* datesOf with the "unknown" sentinel kept
datesOf_unknownKept(events) ==
    sortStrings({events[i].date : i \in 1..Len(events)} \ {""})

\* [...new Set(events.map(e => e.date).filter(d => d && d !== "unknown"))].sort()
datesOf(events) ==
    sortStrings({events[i].date : i \in 1..Len(events)} \ {"", "unknown"})

\* events.filter(e => e.date === date)
RECURSIVE dayEventsOf(_, _)
dayEventsOf(events, date) ==
    IF Len(events) = 0 THEN <<>>
    ELSE (IF events[1].date = date THEN <<events[1]>> ELSE <<>>)
         \o dayEventsOf(Tail(events), date)

\* dayEvents.map(event => ({ event, meta: analyzeQuery(event, q, mode) }))
\*          .filter(row => row.meta.matches)
RECURSIVE matchingRows(_, _, _)
matchingRows(dayEvents, q, mode) ==
    IF Len(dayEvents) = 0 THEN <<>>
    ELSE LET meta == analyzeQuery(dayEvents[1], q, mode)
         IN  (IF meta.matches THEN <<[event |-> dayEvents[1], meta |-> meta]>> ELSE <<>>)
             \o matchingRows(Tail(dayEvents), q, mode)

\* The fallback condition with the test of the number of hits left out
needsFallback_always(rows, preset) == preset.fallback_query # ""

\* hits.length === 0 && preset.fallback_query
needsFallback(rows, preset) == Len(rows) = 0 /\ preset.fallback_query # ""

\* hits.map(row => ({ ...row, rank_score: ... })).sort(...)
rankRows(rows, preset) ==
    arraySort([i \in 1..Len(rows) |->
                  [event      |-> rows[i].event,
                   meta       |-> rows[i].meta,
                   rank_score |-> rows[i].meta.score
                                  + shortlistBoost(rows[i].event, preset.ranking_terms)]],
              <<>>, "shortlistSort")

\* One row of `top`, with the fields that the events of the model have
topRow(row) ==
    [event_id       |-> row.event.event_id,
     name           |-> row.event.name,
     date           |-> row.event.date,
     start_time     |-> row.event.start_time,
     event_type     |-> row.event.event_type,
     category       |-> row.event.category,
     venue          |-> row.event.venue,
     score          |-> row.rank_score,
     matched_terms  |-> row.meta.matched_terms,
     matched_fields |-> row.meta.matched_fields]

\* dayRecord with one row more than perDay kept
dayRecord_oneMore(date, usedNow, ranked, perDay) ==
    LET kept == slice(ranked, 0, perDay + 1)
        top  == [i \in 1..Len(kept) |-> topRow(kept[i])]
    IN  [date             |-> date,
         query_used       |-> usedNow.query,
         q_mode_used      |-> usedNow.mode,
         total_candidates |-> Len(ranked),
         count            |-> Len(top),
         results          |-> top]

\* The record pushed to days, from the ranked rows
dayRecord(date, usedNow, ranked, perDay) ==
    LET kept == slice(ranked, 0, perDay)
        top  == [i \in 1..Len(kept) |-> topRow(kept[i])]
    IN  [date             |-> date,
         query_used       |-> usedNow.query,
         q_mode_used      |-> usedNow.mode,
         total_candidates |-> Len(ranked),
         count            |-> Len(top),
         results          |-> top]

\* The body of the response, without the fields copied from the snapshot
\* and the clock
shortlistBody(r, dayList) ==
    [topic       |-> presetOf(topicRawOf(r)).slug,
     topic_label |-> topicRawOf(r),
     per_day     |-> perDayOf(r),
     days        |-> dayList]

ShortlistRequest == [NoRequest EXCEPT !.path = "/shortlist"]

ShortlistTopics ==
    {"", "AI-Developer-Tooling", "demo", "art-party", "bot-hall", "constructor", "-"}
PerDayValues == {"1", "2", "0", "25", "-3", "x"}

\* Every topic without per_day, and every per_day with one topic
ShortlistRequests ==
    {[ShortlistRequest EXCEPT !.topic = t] : t \in ShortlistTopics}
    \cup {[ShortlistRequest EXCEPT !.topic = "demo", !.per_day = n] : n \in PerDayValues}

InitShortlist ==
    /\ CoreIdle
    /\ RestIdle
    /\ other = NoOther
    /\ ShortlistIdle
    /\ feed \in Feeds
    /\ req \in ShortlistRequests
    /\ pc = "start"
    /\ hits = <<>>
    /\ response = NoResponse

\* handleShortlist up to `await getSnapshot(env)`
ShortlistStart ==
    /\ pc = "start" /\ req.path = "/shortlist"
    /\ pc' = "getSnapshot"
    /\ UNCHANGED <<feed, req, hits, response>>
    /\ UNCHANGED coreVars
    /\ UNCHANGED other
    /\ UNCHANGED restVars
    /\ UNCHANGED shortlistVars

\* const dates = ...; const days = []
ShortlistDates ==
    /\ pc = "loaded" /\ req.path = "/shortlist"
    /\ dates' = datesOf(feed)
    /\ days' = <<>>
    /\ pc' = IF Len(dates') = 0 THEN "respond" ELSE "primary"
    /\ UNCHANGED <<feed, req, hits, response, used, evals>>
    /\ UNCHANGED coreVars
    /\ UNCHANGED other
    /\ UNCHANGED restVars

\* The date of the iteration of the loop that is running
currentDate == dates[Len(days) + 1]

\* The head of the loop body: the primary query over the events of the date
ShortlistPrimary ==
    /\ pc = "primary"
    /\ LET preset == presetOf(topicRawOf(req))
           dayEvents == dayEventsOf(feed, currentDate)
       IN  /\ used' = [query |-> preset.primary_query, mode |-> preset.primary_mode]
           /\ hits' = matchingRows(dayEvents, preset.primary_query, preset.primary_mode)
           /\ evals' = Append(evals, [date |-> currentDate, query |-> used'.query,
                                      mode |-> used'.mode, over |-> dayEvents])
           /\ pc' = IF needsFallback(hits', preset) THEN "fallback" ELSE "rank"
    /\ UNCHANGED <<feed, req, response, dates, days>>
    /\ UNCHANGED coreVars
    /\ UNCHANGED other
    /\ UNCHANGED restVars

\* The body of `if (hits.length === 0 && preset.fallback_query)`
ShortlistFallback ==
    /\ pc = "fallback"
    /\ LET preset == presetOf(topicRawOf(req))
           dayEvents == dayEventsOf(feed, currentDate)
       IN  /\ used' = [query |-> preset.fallback_query,
                       mode  |-> IF preset.fallback_mode # "" THEN preset.fallback_mode
                                 ELSE "any"]
           /\ hits' = matchingRows(dayEvents, used'.query, used'.mode)
           /\ evals' = Append(evals, [date |-> currentDate, query |-> used'.query,
                                      mode |-> used'.mode, over |-> dayEvents])
    /\ pc' = "rank"
    /\ UNCHANGED <<feed, req, response, dates, days>>
    /\ UNCHANGED coreVars
    /\ UNCHANGED other
    /\ UNCHANGED restVars

\* The rest of the loop body: rank, cut to per_day, push the day
ShortlistRank ==
    /\ pc = "rank"
    /\ hits' = rankRows(hits, presetOf(topicRawOf(req)))
    /\ days' = Append(days, dayRecord(currentDate, used, hits', perDayOf(req)))
    /\ pc' = IF Len(days') = Len(dates) THEN "respond" ELSE "primary"
    /\ UNCHANGED <<feed, req, response, dates, used, evals>>
    /\ UNCHANGED coreVars
    /\ UNCHANGED other
    /\ UNCHANGED restVars

\* return json({ ... days })
ShortlistRespond ==
    /\ pc = "respond"
    /\ response' = json(shortlistBody(req, days), 200)
    /\ pc' = "done"
    /\ UNCHANGED <<feed, req, hits>>
    /\ UNCHANGED coreVars
    /\ UNCHANGED other
    /\ UNCHANGED restVars
    /\ UNCHANGED shortlistVars

NextShortlist ==
    \/ ShortlistStart
    \/ GetSnapshotResolves
    \/ GetSnapshotThrows
    \/ onRequestRejects
    \/ ShortlistDates
    \/ ShortlistPrimary
    \/ ShortlistFallback
    \/ ShortlistRank
    \/ ShortlistRespond

SpecShortlist == InitShortlist /\ [][NextShortlist]_vars

---------------------------------------------------------------------------
(* Properties of the shortlist *)

\* The events of the feed on a date, and those of them that a query matches
Bucket(date) == {feed[i] : i \in {k \in 1..Len(feed) : feed[k].date = date}}
MatchesIn(date, q, mode) == {e \in Bucket(date) : analyzeQuery(e, q, mode).matches}

ActivePreset == presetOf(topicRawOf(req))
PrimaryEval(ev) ==
    ev.query = ActivePreset.primary_query /\ ev.mode = ActivePreset.primary_mode
FallbackConfigured == ActivePreset.fallback_query # ""
FallbackMode ==
    IF ActivePreset.fallback_mode # "" THEN ActivePreset.fallback_mode ELSE "any"

\* The evaluations of a date, in the order they were made
RECURSIVE EvalsOf(_, _)
EvalsOf(log, date) ==
    IF Len(log) = 0 THEN <<>>
    ELSE (IF log[1].date = date THEN <<log[1]>> ELSE <<>>) \o EvalsOf(Tail(log), date)

\* The evaluations of a date follow the rule: the primary query first, over the
\* events of that date; then at most the fallback, once, over the same
\* events, and only when the primary matched none and a fallback is configured
EvaluatedInOrder(date) ==
    LET made == EvalsOf(evals, date) IN
    /\ Len(made) \in {1, 2}
    /\ PrimaryEval(made[1])
    /\ \A i \in 1..Len(made) :
          {made[i].over[k] : k \in 1..Len(made[i].over)} = Bucket(date)
    /\ Len(made) = 2 =>
          /\ made[2].query = ActivePreset.fallback_query
          /\ made[2].mode = FallbackMode
          /\ made[2].over = made[1].over
          /\ MatchesIn(date, ActivePreset.primary_query, ActivePreset.primary_mode) = {}
          /\ FallbackConfigured

\* The day record names the query whose matches it reports
NamesUsedQuery(d) ==
    LET primary == MatchesIn(d.date, ActivePreset.primary_query, ActivePreset.primary_mode)
    IN  IF primary = {} /\ FallbackConfigured
        THEN /\ d.query_used = ActivePreset.fallback_query
             /\ d.q_mode_used = FallbackMode
             /\ Len(EvalsOf(evals, d.date)) = 2
        ELSE /\ d.query_used = ActivePreset.primary_query
             /\ d.q_mode_used = ActivePreset.primary_mode
             /\ Len(EvalsOf(evals, d.date)) = 1

\* C10: for every date of the shortlist the primary query is evaluated first
\* and the fallback only when the primary matches nothing and a fallback is
\* configured, over the same events and at most once; query_used and
\* q_mode_used name the query whose matches are reported and
\* total_candidates is the number of events of the date matching it
C10_PrimaryThenFallbackOnce ==
    /\ \A k \in 1..Len(days) :
          /\ days[k].date = dates[k]
          /\ EvaluatedInOrder(days[k].date)
          /\ NamesUsedQuery(days[k])
          /\ days[k].total_candidates =
                Cardinality(MatchesIn(days[k].date, days[k].query_used,
                                      days[k].q_mode_used))
    /\ \A i \in 1..Len(evals) :
          /\ evals[i].date \in {dates[k] : k \in 1..Len(dates)}
          /\ PrimaryEval(evals[i]) \/ (i > 1 /\ evals[i - 1].date = evals[i].date)
    /\ (pc = "done" /\ req.path = "/shortlist") =>
          /\ response.body.days = days
          /\ Len(days) = Len(dates)

\* a day on which the primary query "art party" matches, then a day on which
\* it matches nothing and the fallback "AI" is evaluated and reported
C10_Witness ==
    /\ pc = "done" /\ req.path = "/shortlist" /\ req.topic = "art-party"
    /\ Len(response.body.days) = 2
    /\ response.body.days[1].query_used = "art party"
    /\ response.body.days[1].total_candidates = 1
    /\ response.body.days[2].query_used = "AI"
    /\ response.body.days[2].q_mode_used = "any"
    /\ response.body.days[2].total_candidates = 1
    /\ Len(evals) = 3

ShortlistAnswered == pc = "done" /\ req.path = "/shortlist" /\ response.status = 200

\* The dates of the feed that are neither empty nor the sentinel
FeedDates == {feed[i].date : i \in 1..Len(feed)} \ {"", "unknown"}

\* The number written by a string of digits
RECURSIVE DigitsValue(_, _)
DigitsValue(s, acc) ==
    IF s = "" THEN acc
    ELSE DigitsValue(Tail(s), 10 * acc + IndexIn(DigitChars, CharAt(s, 1)) - 1)

\* The day YYYY-MM-DD as a number that grows with the calendar
DayNumber(d) ==
    DigitsValue(SubSeq(d, 1, 4), 0) * 10000 + DigitsValue(SubSeq(d, 6, 7), 0) * 100
    + DigitsValue(SubSeq(d, 9, 10), 0)

\* C11: the shortlist has exactly one day record for every date of the feed
\* other than "" and "unknown", in ascending order of the dates, and a date on
\* which neither the primary nor the fallback query matches is there with
\* total_candidates 0 and no results
C11_OneDayPerDateAscending ==
    ShortlistAnswered =>
        LET ds == response.body.days IN
        /\ {ds[k].date : k \in 1..Len(ds)} = FeedDates
        /\ \A i, j \in 1..Len(ds) : i < j => DayNumber(ds[i].date) < DayNumber(ds[j].date)
        /\ \A k \in 1..Len(ds) :
              (/\ MatchesIn(ds[k].date, ActivePreset.primary_query,
                            ActivePreset.primary_mode) = {}
               /\ MatchesIn(ds[k].date, ActivePreset.fallback_query, FallbackMode) = {})
              => (ds[k].total_candidates = 0 /\ ds[k].results = <<>> /\ ds[k].count = 0)

\* two dates met in descending order in a feed that also has an event without
\* a usable date; on the first date neither "demo" nor "AI" matches
C11_Witness ==
    /\ ShortlistAnswered /\ req.topic = "demo"
    /\ Len(feed) = 3
    /\ feed[1].date = "2026-03-14" /\ feed[2].date = "2026-03-13"
    /\ feed[3].date \in {"", "unknown"}
    /\ Len(response.body.days) = 2
    /\ response.body.days[1].date = "2026-03-13"
    /\ response.body.days[1].total_candidates = 0
    /\ response.body.days[1].results = <<>>
    /\ response.body.days[2].total_candidates = 1

\* The rank score of an event of a day under the query the day reports
RankScoreIn(d, e) ==
    analyzeQuery(e, d.query_used, d.q_mode_used).score
    + shortlistBoost(e, ActivePreset.ranking_terms)

\* The event of the feed with an id
EventWithId(id) == CHOOSE e \in {feed[i] : i \in 1..Len(feed)} : e.event_id = id

Min(a, b) == IF a < b THEN a ELSE b

\* The day holds Min(n, total_candidates) results, which are the best: no match
\* left out has a higher rank score than a match kept
TruncatedTo(d, n) ==
    LET candidates == MatchesIn(d.date, d.query_used, d.q_mode_used)
        keptIds    == {d.results[i].event_id : i \in 1..Len(d.results)}
    IN  /\ d.total_candidates = Cardinality(candidates)
        /\ Len(d.results) = Min(n, d.total_candidates)
        /\ d.count = Len(d.results)
        /\ Cardinality(keptIds) = Len(d.results)
        /\ keptIds \subseteq {e.event_id : e \in candidates}
        /\ \A i \in 1..Len(d.results) :
              d.results[i].score = RankScoreIn(d, EventWithId(d.results[i].event_id))
        /\ \A e \in candidates : e.event_id \notin keptIds =>
              \A i \in 1..Len(d.results) : d.results[i].score >= RankScoreIn(d, e)

\* The request value clamped to 1..20, 5 when it is absent or no number
ClampedPerDay ==
    LET parsed == parseInt(req.per_day) IN
    IF parsed = NaN THEN 5
    ELSE IF parsed.value < 1 THEN 1
    ELSE IF parsed.value > 20 THEN 20
    ELSE parsed.value

\* The request value capped at 20, 5 when it is absent, no number or not
\* positive
CappedPerDay ==
    LET parsed == parseInt(req.per_day) IN
    IF parsed = NaN THEN 5
    ELSE IF parsed.value < 1 THEN 5
    ELSE IF parsed.value > 20 THEN 20
    ELSE parsed.value

\* C12 as stated: every day is truncated to per_day results, per_day being the
\* request value clamped to 1..20 with default 5
C12_TruncatedToClampedPerDay ==
    ShortlistAnswered =>
        \A k \in 1..Len(response.body.days) :
            /\ TruncatedTo(response.body.days[k], ClampedPerDay)
            /\ Len(response.body.days[k].results) <= ClampedPerDay

\* C12 amended: every day holds exactly min(per_day, total_candidates)
\* results, the highest by rank score, count is their number and
\* total_candidates the number of matches, per_day being the request value
\* capped at 20, and 5 when the value is absent, no number, zero or negative
C12_TruncatedToCappedPerDay ==
    ShortlistAnswered =>
        /\ response.body.per_day = CappedPerDay
        /\ response.body.per_day \in 1..20
        /\ \A k \in 1..Len(response.body.days) :
              /\ TruncatedTo(response.body.days[k], CappedPerDay)
              /\ Len(response.body.days[k].results) <= response.body.per_day

\* per_day=2 and a day with three matches of the fallback: two are kept
C12_Witness ==
    /\ ShortlistAnswered /\ req.per_day = "2"
    /\ Len(response.body.days) = 1
    /\ response.body.days[1].total_candidates = 3
    /\ response.body.days[1].count = 2
    /\ Len(response.body.days[1].results) = 2
    /\ response.body.days[1].results[1].score > response.body.days[1].results[2].score

\* The row of the search endpoint for a result of a day
SearchRowOf(d, x) ==
    [event |-> EventWithId(x.event_id),
     meta  |-> analyzeQuery(EventWithId(x.event_id), d.query_used, d.q_mode_used)]

\* What the order of the search endpoint looks at in that row
SearchKeyOf(d, x) ==
    [score      |-> SearchRowOf(d, x).meta.score,
     start_time |-> x.start_time,
     event_id   |-> x.event_id]

\* C13: the results of a day are in the order rank score descending, and two
\* results of equal rank score are in the order of the search endpoint: match
\* score descending, start time ascending, event id ascending, which is the
\* order searchSort gives their rows
C13_RankThenSearchOrder ==
    ShortlistAnswered =>
        \A k \in 1..Len(response.body.days) :
            LET d == response.body.days[k] IN
            \A i, j \in 1..Len(d.results) : i < j =>
                LET x == d.results[i]
                    y == d.results[j]
                IN  \/ x.score > y.score
                    \/ /\ x.score = y.score
                       /\ RankedBefore(SearchKeyOf(d, x), SearchKeyOf(d, y))
                       /\ searchSort(SearchRowOf(d, x), SearchRowOf(d, y)) < 0
                       /\ sortHits(<<SearchRowOf(d, y), SearchRowOf(d, x)>>)
                             = <<SearchRowOf(d, x), SearchRowOf(d, y)>>

\* two results of equal rank score and different match score, found in the
\* feed in the other order
C13_Witness ==
    /\ ShortlistAnswered /\ req.topic = "bot-hall"
    /\ Len(feed) >= 2 /\ feed[1].event_id = "E10" /\ feed[2].event_id = "E4"
    /\ Len(response.body.days) = 1
    /\ Len(response.body.days[1].results) = 2
    /\ response.body.days[1].results[1].event_id = "E4"
    /\ response.body.days[1].results[2].event_id = "E10"
    /\ response.body.days[1].results[1].score = response.body.days[1].results[2].score
    /\ response.body.days[1].results[1].matched_terms = <<"bot">>

\* The blob of name, category, event_type, venue name and contributor names
BoostBlob(e) ==
    normalize(join(<<e.name, e.category, e.event_type, e.venue>> \o e.contributors, " "))

\* The boost as the sum of 3 for every ranking term in the name, 1 for every
\* other ranking term in the blob, and 2 for a panel
ClaimedBoost(e, terms) ==
    LET inName == {i \in 1..Len(terms) : includes(normalize(e.name), normalize(terms[i]))}
        inBlob == {i \in 1..Len(terms) : includes(BoostBlob(e), normalize(terms[i]))}
    IN  3 * Cardinality(inName) + Cardinality(inBlob \ inName)
        + (IF e.event_type = "panel" THEN 2 ELSE 0)

\* C14: the score of every shortlist item is the match score of its event
\* under the query the day reports plus the boost: 3 for every ranking term
\* in the normalized name, else 1 for every ranking term in the normalized
\* blob, plus 2 when the event type is "panel"
C14_ScoreIsMatchScorePlusBoost ==
    ShortlistAnswered =>
        \A k \in 1..Len(response.body.days) :
            LET d == response.body.days[k] IN
            \A i \in 1..Len(d.results) :
                LET e == EventWithId(d.results[i].event_id) IN
                d.results[i].score =
                    analyzeQuery(e, d.query_used, d.q_mode_used).score
                    + ClaimedBoost(e, ActivePreset.ranking_terms)

\* an event with the ranking term "code" in its category only (14 + 1) and,
\* on the next day, a panel without ranking terms (6 + 2)
C14_Witness ==
    /\ ShortlistAnswered /\ req.topic = "art-party"
    /\ Len(response.body.days) = 2
    /\ response.body.days[1].results[1].event_id = "E5"
    /\ response.body.days[1].results[1].matched_terms = <<"art", "party">>
    /\ response.body.days[1].results[1].score = 15
    /\ response.body.days[2].results[1].event_id = "E10"
    /\ response.body.days[2].results[1].score = 8

---------------------------------------------------------------------------
(* Properties of the search request *)

\* The q_mode parameter is absent or, in lower case and without the spaces
\* around it, one of the three modes
NamesValidMode == req.q_mode = "" \/ normalize(req.q_mode) \in {"any", "all", "phrase"}

\* The q_mode parameter is absent or is, as written, one of the three modes
IsValidMode == req.q_mode \in {"", "any", "all", "phrase"}

\* No events loaded, no call of analyzeQuery, and the answer is 400
RejectedBeforeCore ==
    /\ pc \in {"start", "done"}
    /\ evals = <<>> /\ hits = <<>>
    /\ pc = "done" => response.status = 400

FeedPosition(e) == CHOOSE i \in 1..Len(feed) : feed[i] = e

\* The fields of the match
MatchFields == {"score", "matched_terms", "matched_fields"}

\* C16: with q every returned event carries score, matched_terms and
\* matched_fields next to its own fields and the list is in the order of C9;
\* without q the returned events are events of the feed as they are, those
\* that pass the filters, in the order they have in the feed
C16_AugmentedOrUnmodified ==
    SearchAnswered =>
        LET results == response.body.results IN
        IF req.q # ""
        THEN /\ \A i \in 1..Len(results) :
                   /\ MatchFields \subseteq DOMAIN results[i]
                   /\ \E e \in {feed[k] : k \in 1..Len(feed)} :
                         /\ DOMAIN results[i] = DOMAIN e \cup MatchFields
                         /\ \A f \in DOMAIN e : results[i][f] = e[f]
                         /\ passesFilters(e, req)
             /\ \A i, j \in 1..Len(results) :
                   i < j => RankedBefore(results[i], results[j])
        ELSE /\ \A i \in 1..Len(results) :
                   /\ results[i] \in {feed[k] : k \in 1..Len(feed)}
                   /\ passesFilters(results[i], req)
             /\ \A i, j \in 1..Len(results) :
                   i < j => FeedPosition(results[i]) < FeedPosition(results[j])
             /\ response.body.total =
                   Cardinality({k \in 1..Len(feed) : passesFilters(feed[k], req)})
             /\ response.body.count = response.body.total

\* no q and a venue filter that the first and the third event of the feed
\* pass: the two are returned as they are, in the order of the feed, which
\* is not the order of the search results
C16_Witness ==
    /\ SearchAnswered /\ req.q = "" /\ req.venue = "dev  hall"
    /\ Len(feed) = 3
    /\ response.body.results = <<feed[1], feed[3]>>
    /\ feed[1].event_id = "E10" /\ feed[3].event_id = "E3"

---------------------------------------------------------------------------
(* Properties of the topic *)

\* The topic of the request in lower case, hyphens replaced by spaces
TopicWords == concatChars(replaceDashes(normalize(req.topic)))

GenericRankingTerms ==
    <<"developer", "tooling", "agent", "api", "platform", "code", "llm", "infrastructure">>

\* The shortlist was made with a primary query, in mode 'any', and ranking
\* terms: the first evaluation of every date is the primary query, and the
\* scores have the boost of the ranking terms
MadeWith(slug, primary, terms) ==
    /\ response.body.topic = slug
    /\ \A i \in 1..Len(evals) :
          (i = 1 \/ evals[i - 1].date # evals[i].date) =>
              (evals[i].query = primary /\ evals[i].mode = "any")
    /\ \A k \in 1..Len(response.body.days) :
          LET d == response.body.days[k] IN
          \A i \in 1..Len(d.results) :
              LET e == EventWithId(d.results[i].event_id) IN
              d.results[i].score =
                  analyzeQuery(e, d.query_used, d.q_mode_used).score + ClaimedBoost(e, terms)

\* C17: a missing topic selects the preset 'ai-developer-tooling'; every
\* topic that is not the slug of a preset gives the generic preset: the
\* primary query is the topic with its hyphens replaced by spaces, the
\* primary mode is 'any' and the ranking terms are the generic list
C17_UnknownTopicIsGeneric ==
    ShortlistAnswered =>
        IF req.topic = "" \/ normalize(req.topic) = "ai-developer-tooling"
        THEN MadeWith("ai-developer-tooling", "AI developer tooling",
                      AiDeveloperTooling.ranking_terms)
        ELSE MadeWith(IF normalize(req.topic) = "" THEN "custom" ELSE normalize(req.topic),
                      IF normalize(req.topic) = "" THEN "ai" ELSE TopicWords,
                      GenericRankingTerms)

---------------------------------------------------------------------------
(* Two requests in flight over the same snapshot *)

\* handleEvents from entry to return, without another request in between
handleEventsAlone(events, r) ==
    IF requestMode(r) \notin QUERY_MODES
    THEN error("Invalid q_mode. Use one of: any, all, phrase", 400)
    ELSE json(eventsBody(collectHits(events, 1, r, requestMode(r), <<>>), r), 200)

\* One iteration of the loop of handleShortlist
shortlistDay(events, date, preset, perDay) ==
    LET dayEvents == dayEventsOf(events, date)
        primary   == matchingRows(dayEvents, preset.primary_query, preset.primary_mode)
        fallback  == needsFallback(primary, preset)
        usedQuery == IF fallback THEN preset.fallback_query ELSE preset.primary_query
        usedMode  == IF ~fallback THEN preset.primary_mode
                     ELSE IF preset.fallback_mode # "" THEN preset.fallback_mode
                     ELSE "any"
        rows      == IF fallback THEN matchingRows(dayEvents, usedQuery, usedMode)
                     ELSE primary
    IN  dayRecord(date, [query |-> usedQuery, mode |-> usedMode],
                  rankRows(rows, preset), perDay)

\* handleShortlist from entry to return, without another request in between
handleShortlistAlone(events, r) ==
    json(shortlistBody(r, [k \in 1..Len(datesOf(events)) |->
                              shortlistDay(events, datesOf(events)[k],
                                           presetOf(topicRawOf(r)), perDayOf(r))]),
         200)

\* The snapshots two requests share: feeds of up to MaxSharedFeed events
MaxSharedFeed == 2
SharedFeeds == {f \in Feeds : Len(f) <= MaxSharedFeed}

ConcurrentRequests ==
    {[EventsRequest EXCEPT !.q = "ai"],
     [EventsRequest EXCEPT !.venue = "dev  hall"],
     [ShortlistRequest EXCEPT !.topic = "demo"],
     [ShortlistRequest EXCEPT !.topic = "art-party", !.per_day = "1"]}

OtherRequests ==
    {[EventsRequest EXCEPT !.q = "llm party", !.q_mode = "ALL"],
     [EventsRequest EXCEPT !.q_mode = "fuzzy"],
     EventsRequest}

InitConcurrent ==
    /\ CoreIdle
    /\ RestIdle
    /\ ShortlistIdle
    /\ feed \in SharedFeeds
    /\ req \in ConcurrentRequests
    /\ pc = "start"
    /\ hits = <<>>
    /\ response = NoResponse
    /\ \E r \in OtherRequests :
          other = [req |-> r, pc |-> "start", hits |-> <<>>, response |-> NoResponse]

\* The second request leaves the first one's variables alone
OtherOnly ==
    /\ UNCHANGED <<feed, req, pc, hits, response>>
    /\ UNCHANGED coreVars
    /\ UNCHANGED shortlistVars
    /\ UNCHANGED restVars

\* handleEvents of the second request up to `await getEvents(env)`
OtherValidate ==
    /\ other.pc = "start"
    /\ other' = IF requestMode(other.req) \notin QUERY_MODES
                THEN [other EXCEPT
                         !.response = error("Invalid q_mode. Use one of: any, all, phrase", 400),
                         !.pc = "done"]
                ELSE [other EXCEPT !.pc = "getSnapshot"]
    /\ OtherOnly

\* its getSnapshot resolves with the same events, or throws
OtherSnapshotResolves ==
    /\ other.pc = "getSnapshot"
    /\ other' = [other EXCEPT !.pc = "loaded"]
    /\ OtherOnly

OtherSnapshotThrows ==
    /\ other.pc = "getSnapshot"
    /\ other' = [other EXCEPT !.pc = "threw"]
    /\ OtherOnly

\* The loop of the second request, written as one that also sorts the shared
\* events in place
OtherCollect_sortsEvents ==
    /\ other.pc = "loaded"
    /\ other' = [other EXCEPT
                    !.hits = collectHits(feed, 1, other.req, requestMode(other.req), <<>>),
                    !.pc = "collected"]
    /\ feed' = [i \in 1..Len(feed) |->
                   sortHits([k \in 1..Len(feed) |-> [event |-> feed[k], meta |-> NullMeta]])[i].event]
    /\ UNCHANGED <<req, pc, hits, response>>
    /\ UNCHANGED coreVars
    /\ UNCHANGED shortlistVars
    /\ UNCHANGED restVars

\* The loop of handleEvents of the second request
OtherCollect ==
    /\ other.pc = "loaded"
    /\ other' = [other EXCEPT
                    !.hits = collectHits(feed, 1, other.req, requestMode(other.req), <<>>),
                    !.pc = "collected"]
    /\ OtherOnly

\* The sort, the map, the page and the answer of the second request
OtherRespond ==
    /\ other.pc = "collected"
    /\ other' = [other EXCEPT
                    !.response = json(eventsBody(other.hits, other.req), 200),
                    !.pc = "done"]
    /\ OtherOnly

NextConcurrent ==
    \/ EventsValidate
    \/ GetSnapshotResolves
    \/ GetSnapshotThrows
    \/ EventsRespond
    \/ ShortlistStart
    \/ ShortlistDates
    \/ ShortlistPrimary
    \/ ShortlistFallback
    \/ ShortlistRank
    \/ ShortlistRespond
    \/ OtherValidate
    \/ OtherSnapshotResolves
    \/ OtherSnapshotThrows
    \/ OtherCollect
    \/ OtherRespond

SpecConcurrent == InitConcurrent /\ [][NextConcurrent]_vars

\* Every request that was answered has the answer it gets when it runs alone
\* over the shared events
AnsweredAsAlone ==
    /\ (pc = "done" /\ req.path = "/events") => response = handleEventsAlone(feed, req)
    /\ (pc = "done" /\ req.path = "/shortlist") => response = handleShortlistAlone(feed, req)
    /\ other.pc = "done" => other.response = handleEventsAlone(feed, other.req)

\* C18: whatever the interleaving of a search or shortlist request with
\* another search request over the same events, each is answered as when it
\* runs alone, and no step of either changes the shared list of events
C18_NoSharedWrites ==
    /\ []AnsweredAsAlone
    /\ [][feed' = feed]_vars

\* both requests are in the middle of their evaluation over the same events
C18_Witness ==
    /\ req.path = "/shortlist" /\ pc = "rank" /\ Len(hits) > 0
    /\ other.pc = "collected" /\ Len(other.hits) > 0
    /\ Len(feed) = 2

---------------------------------------------------------------------------
(* Properties of the match result *)

\* The score of the scorer for the call: the weights of the (token, field)
\* pairs that hit plus the number of tokens that hit
TokenScore ==
    LET pairs == HitPairs(buildSearchIndex(event), query)
    IN  SumOfWeights(pairs) + Cardinality({p[1] : p \in pairs})

\* C19 as stated: a successful 'all' match scores 3 more than the 'any'
\* result for the same event and query, a successful 'phrase' match scores
\* the token score plus 4, and 'any' adds nothing
C19_ModeBonuses ==
    (Returned /\ result.matches) =>
        /\ qMode = "any" => result.score = TokenScore
        /\ qMode = "all" => result.score = analyzeQuery(event, query, "any").score + 3
        /\ qMode = "phrase" => result.score = TokenScore + 4

\* C19 amended: for a query that is not blank, a successful 'all' match
\* scores the token score plus 3, which is 3 more than the 'any' match when
\* 'any' matches too; a successful 'phrase' match scores the token score
\* plus 4 with the matched terms and fields of the scorer; 'any' adds
\* nothing. A blank query scores 0 in every mode
C19_ModeBonusesNonBlank ==
    (Returned /\ result.matches) =>
        IF IsBlank(query) THEN result.score = 0
        ELSE LET scored  == scoreTokenMatches(buildSearchIndex(event), TokenListOf[query])
                 anyCall == analyzeQuery(event, query, "any")
             IN  /\ qMode = "any" => result.score = TokenScore
                 /\ qMode = "all" =>
                       /\ result.score = TokenScore + 3
                       /\ anyCall.matches => result.score = anyCall.score + 3
                 /\ qMode = "phrase" => result.score = TokenScore + 4
                 /\ result.matched_terms = scored.matched_terms
                 /\ result.matched_fields = scored.matched_fields

\* the phrase "future panel" runs from the name into the category: 5 for
\* future in the name, 2 for panel in the category, 2 terms, and 4
C19_Witness ==
    /\ Returned /\ qMode = "phrase" /\ query = "future  panel"
    /\ event.name = "AI and the Future" /\ event.category = "Panel"
    /\ event.event_type = ""
    /\ result.matches
    /\ result.score = 13
    /\ result.matched_terms = <<"future", "panel">>
    /\ result.matched_fields = <<"category", "name">>

\* The canonical tokens of the query, one per word, repeated ones included
CanonicalWords == mapCanonicalize(tokenize(query))

\* The place of the first occurrence of a token among them
FirstPlace(t) ==
    CHOOSE i \in 1..Len(CanonicalWords) :
        /\ CanonicalWords[i] = t
        /\ \A k \in 1..(i - 1) : CanonicalWords[k] # t

\* The field names in ascending lexicographic order
AscendingFields == <<"category", "contributors", "event_type", "name", "venue">>
FieldPlace(f) == CHOOSE i \in 1..Len(AscendingFields) : AscendingFields[i] = f

---------------------------------------------------------------------------
(* Properties of the search index *)

\* The five field values of the event, in the order of the index
FieldValuesOf(e) ==
    <<e.name, e.category, e.venue, e.event_type, join(e.contributors, " ")>>

\* No space at either end and no two spaces in a row
IsCollapsed(str) ==
    /\ \A i \in 1..Len(str) : CharAt(str, i) \in SpaceChars => CharAt(str, i) = " "
    /\ str = "" \/ (CharAt(str, 1) # " " /\ CharAt(str, Len(str)) # " ")
    /\ \A i \in 1..(Len(str) - 1) : ~(CharAt(str, i) = " " /\ CharAt(str, i + 1) = " ")

\* C21: for every event, empty fields included, rawBlob is the lower-case,
\* whitespace-collapsed, space-joined concatenation of the five field values
\* in the order name, category, venue, event_type, contributors, and
\* canonicalBlob is that concatenation with every token in canonical form
C21_BlobsAreCollapsedConcatenations ==
    LET index == buildSearchIndex(event) IN
    /\ IsCollapsed(index.rawBlob)
    /\ index.rawBlob = normalize(join(FieldValuesOf(event), " "))
    /\ IsCollapsed(index.canonicalBlob)
    /\ index.canonicalBlob = canonicalizeText(normalize(join(FieldValuesOf(event), " ")))

---------------------------------------------------------------------------
(* The snapshot cache: getSnapshot.  Times are in milliseconds, as         *)
(* Date.now() gives them.  null is the empty tuple, a value that was       *)
(* assigned is the 1-tuple of it; a property the feed leaves out is the    *)
(* falsy value of its type (0, "", <<>>), which `||` treats like            *)
(* undefined.                                                              *)

CACHE_TTL == 300

CatalogEvent(id) == CHOOSE e \in EventCatalog : e.event_id = id

\* The bodies the slim feed can have: a full one and the empty object
SlimFeeds ==
    {[events |-> <<CatalogEvent("E2"), CatalogEvent("E3")>>, festival_year |-> 2027,
      event_count |-> 7, generated_at |-> "2026-03-02T00:00:00Z"],
     [events |-> <<>>, festival_year |-> 0, event_count |-> 0, generated_at |-> ""]}

\* What `await fetch(SLIM_JSON_URL, ...)` can resolve with
FetchResponses ==
    {[ok |-> FALSE, status |-> 503]}
    \cup {[ok |-> TRUE, status |-> 200, data |-> d] : d \in SlimFeeds}

MaxCallers == 2
Callers == 1..MaxCallers
TickMs == 150000
MaxTicks == 3

\* data.events || []
cacheOf(data) == data.events

\* The object assigned to _cacheMeta
metaOf(data, cache) ==
    [festival_year |-> IF data.festival_year = 0 THEN 2026 ELSE data.festival_year,
     event_count |-> IF data.event_count = 0 THEN Len(cache) ELSE data.event_count,
     index_timestamp |-> data.generated_at]

\* { events: _cache, ..._cacheMeta }
snapshot(cache, meta) ==
    [events |-> cache, festival_year |-> meta.festival_year,
     event_count |-> meta.event_count, index_timestamp |-> meta.index_timestamp]

\* _cache && _cacheMeta && now < _cacheExpiry
cacheIsFresh(now) == Len(_cache) = 1 /\ Len(_cacheMeta) = 1 /\ now < _cacheExpiry

InitCache ==
    /\ CoreIdle
    /\ ShortlistIdle
    /\ other = NoOther
    /\ feed = <<>>
    /\ req = NoRequest
    /\ pc = "idle"
    /\ hits = <<>>
    /\ response = NoResponse
    /\ _cache = <<>>
    /\ _cacheMeta = <<>>
    /\ _cacheExpiry = 0
    /\ clock = 0
    /\ calls = [c \in Callers |-> NoCall]
    /\ ScriptIdle

\* The cache's steps leave the requests' variables alone
CacheOnly ==
    /\ UNCHANGED coreVars
    /\ UNCHANGED apiVars
    /\ UNCHANGED shortlistVars
    /\ UNCHANGED other
    /\ UNCHANGED scriptVars

\* Time passes
Tick ==
    /\ clock + TickMs <= MaxTicks * TickMs
    /\ clock' = clock + TickMs
    /\ UNCHANGED <<_cache, _cacheMeta, _cacheExpiry, calls>>
    /\ CacheOnly

\* getSnapshot written with a guard: a call that finds a fetch in flight waits
\* for it instead of fetching
getSnapshotStart_singleFlight(c) ==
    /\ calls[c].pc = "idle"
    /\ \A d \in Callers : d < c => calls[d].pc # "idle"
    /\ calls' = [calls EXCEPT ![c] =
                    IF cacheIsFresh(clock)
                    THEN [pc |-> "returned", now |-> clock, res |-> NoFetch,
                          ret |-> snapshot(_cache[1], _cacheMeta[1])]
                    ELSE IF \E d \in Callers : calls[d].pc \in {"fetch", "json"}
                    THEN [pc |-> "waiting", now |-> clock, res |-> NoFetch, ret |-> NoSnapshot]
                    ELSE [pc |-> "fetch", now |-> clock, res |-> NoFetch, ret |-> NoSnapshot]]
    /\ UNCHANGED <<_cache, _cacheMeta, _cacheExpiry, clock>>
    /\ CacheOnly

\* getSnapshot up to `await fetch(...)`: now is read, a fresh cache is returned,
\* otherwise the fetch is issued.  Of the callers that are not in a call, the
\* one with the lowest number makes the next call.
getSnapshotStart(c) ==
    /\ calls[c].pc = "idle"
    /\ \A d \in Callers : d < c => calls[d].pc # "idle"
    /\ calls' = [calls EXCEPT ![c] =
                    IF cacheIsFresh(clock)
                    THEN [pc |-> "returned", now |-> clock, res |-> NoFetch,
                          ret |-> snapshot(_cache[1], _cacheMeta[1])]
                    ELSE [pc |-> "fetch", now |-> clock, res |-> NoFetch, ret |-> NoSnapshot]]
    /\ UNCHANGED <<_cache, _cacheMeta, _cacheExpiry, clock>>
    /\ CacheOnly

\* The fetch resolves: a response that is not ok throws, an ok one goes on to
\* `await res.json()`
getSnapshotFetched(c, res) ==
    /\ calls[c].pc = "fetch"
    /\ calls' = [calls EXCEPT ![c].res = res,
                              ![c].pc = IF res.ok THEN "json" ELSE "threw"]
    /\ UNCHANGED <<_cache, _cacheMeta, _cacheExpiry, clock>>
    /\ CacheOnly

\* The fetch rejects, or the body is not JSON: the await throws
getSnapshotRejected(c) ==
    /\ calls[c].pc \in {"fetch", "json"}
    /\ calls' = [calls EXCEPT ![c].pc = "threw"]
    /\ UNCHANGED <<_cache, _cacheMeta, _cacheExpiry, clock>>
    /\ CacheOnly

\* The rest of getSnapshot written with the expiry counted from the time the
\* body arrived
getSnapshotJson_expiryFromArrival(c) ==
    /\ calls[c].pc = "json"
    /\ _cache' = <<cacheOf(calls[c].res.data)>>
    /\ _cacheMeta' = <<metaOf(calls[c].res.data, _cache'[1])>>
    /\ _cacheExpiry' = clock + CACHE_TTL * 1000
    /\ calls' = [calls EXCEPT ![c].pc = "returned",
                              ![c].ret = snapshot(_cache'[1], _cacheMeta'[1])]
    /\ UNCHANGED clock
    /\ CacheOnly

\* The rest of getSnapshot written to keep the metadata of a cache that has
\* some
getSnapshotJson_keepsMeta(c) ==
    /\ calls[c].pc = "json"
    /\ _cache' = <<cacheOf(calls[c].res.data)>>
    /\ _cacheMeta' = IF Len(_cacheMeta) = 1 THEN _cacheMeta
                     ELSE <<metaOf(calls[c].res.data, _cache'[1])>>
    /\ _cacheExpiry' = calls[c].now + CACHE_TTL * 1000
    /\ calls' = [calls EXCEPT ![c].pc = "returned",
                              ![c].ret = snapshot(_cache'[1], _cacheMeta'[1])]
    /\ UNCHANGED clock
    /\ CacheOnly

\* The rest of getSnapshot, after `await res.json()`: the three assignments and
\* the return, with no await between them
getSnapshotJson(c) ==
    /\ calls[c].pc = "json"
    /\ _cache' = <<cacheOf(calls[c].res.data)>>
    /\ _cacheMeta' = <<metaOf(calls[c].res.data, _cache'[1])>>
    /\ _cacheExpiry' = calls[c].now + CACHE_TTL * 1000
    /\ calls' = [calls EXCEPT ![c].pc = "returned",
                              ![c].ret = snapshot(_cache'[1], _cacheMeta'[1])]
    /\ UNCHANGED clock
    /\ CacheOnly

\* The caller has taken the value or the exception; it may call again
getSnapshotSettled(c) ==
    /\ calls[c].pc \in {"returned", "threw"}
    /\ calls' = [calls EXCEPT ![c] = NoCall]
    /\ UNCHANGED <<_cache, _cacheMeta, _cacheExpiry, clock>>
    /\ CacheOnly

NextCache ==
    \/ Tick
    \/ \E c \in Callers : getSnapshotStart(c)
    \/ \E c \in Callers, res \in FetchResponses : getSnapshotFetched(c, res)
    \/ \E c \in Callers : getSnapshotRejected(c)
    \/ \E c \in Callers : getSnapshotJson(c)
    \/ \E c \in Callers : getSnapshotSettled(c)

SpecCache == InitCache /\ [][NextCache]_vars

\* The call enters getSnapshot in this step
Enters(c) == calls[c].pc = "idle" /\ calls'[c].pc # "idle"

\* C22: there is no single-flight guard: a call that enters getSnapshot while
\* the cache is empty or expired issues its own upstream fetch, whatever
\* fetches of other calls are in flight
C22_EveryMissFetches ==
    [][\A c \in Callers :
          Enters(c) /\ ~(Len(_cache) = 1 /\ clock < _cacheExpiry)
          => calls'[c].pc = "fetch"]_vars

\* Two refills in flight at once, both started before any fetch completed
C22_Witness ==
    /\ \A c \in Callers : calls[c].pc = "fetch"
    /\ _cache = <<>>

\* The cache holds events and metadata
Populated == Len(_cache) = 1 /\ Len(_cacheMeta) = 1

\* What a call that is served from the cache returns
Cached == snapshot(_cache[1], _cacheMeta[1])

\* The call is served from the cache in this step, with no fetch
ServedFromCache(c) ==
    /\ calls'[c].pc = "returned"
    /\ calls'[c].res = NoFetch
    /\ calls'[c].ret = Cached
    /\ UNCHANGED <<_cache, _cacheMeta, _cacheExpiry>>

\* The call's fetch succeeded and the call returns in this step
Refills(c) == calls[c].pc = "json" /\ calls'[c].pc = "returned"

\* The step of a call in the life of the cache
LifecycleStep(c) ==
    /\ Enters(c) =>
          /\ calls'[c].now = clock
          /\ IF Populated /\ clock < _cacheExpiry
             THEN ServedFromCache(c)
             ELSE calls'[c].pc = "fetch"
    /\ Refills(c) =>
          /\ _cacheExpiry' = calls[c].now + 300 * 1000
          /\ _cache' = <<calls[c].res.data.events>>
          /\ Len(_cacheMeta') = 1
          /\ calls'[c].ret = snapshot(_cache'[1], _cacheMeta'[1])

\* C23: the cache starts empty; a call made while it is populated and now is
\* before the expiry returns the cached events and metadata without a fetch;
\* every other call fetches, and a fetch that succeeds replaces the cache with
\* expiry = (the time at the start of that call) + 300 s
C23_CacheLifecycle ==
    /\ ~Populated /\ _cacheExpiry = 0
    /\ [][\A c \in Callers : LifecycleStep(c)]_vars

\* A call at 150 s was served from the cache that a call at 0 s filled, and
\* the call at 300 s, the expiry, fetched again and replaced it
C23_Witness ==
    /\ calls[1].pc = "returned" /\ calls[1].now = 150000 /\ calls[1].res = NoFetch
    /\ Len(calls[1].ret.events) = 2
    /\ calls[2].pc = "returned" /\ calls[2].now = 300000 /\ calls[2].res.ok
    /\ _cache = <<(<<>>)>>
    /\ _cacheExpiry = 600000

\* The snapshot made of one response body
SnapshotOf(d) == snapshot(cacheOf(d), metaOf(d, cacheOf(d)))

\* Events and metadata of the cache are those of one response
CacheOfOneResponse ==
    \/ _cache = <<>> /\ _cacheMeta = <<>> /\ _cacheExpiry = 0
    \/ /\ Populated
       /\ \E d \in SlimFeeds : Cached = SnapshotOf(d)

\* Events and metadata of every returned value are those of one response
ReturnsOfOneResponse ==
    \A c \in Callers :
        calls[c].pc = "returned" => \E d \in SlimFeeds : calls[c].ret = SnapshotOf(d)

\* The call throws in this step
Throws(c) == calls[c].pc # "threw" /\ calls'[c].pc = "threw"

\* C24: a call that throws leaves _cache, _cacheMeta and _cacheExpiry as they
\* were; the three are replaced together, so the events and the metadata of
\* the cache, and of every value getSnapshot returns, come from one and the
\* same fetch response under every interleaving of refills
C24_AllOrNothing ==
    /\ [](CacheOfOneResponse /\ ReturnsOfOneResponse)
    /\ [][\A c \in Callers :
             Throws(c) => UNCHANGED <<_cache, _cacheMeta, _cacheExpiry>>]_vars

\* Two refills that overlapped, answered with different bodies, have both
\* returned
C24_Witness ==
    /\ calls[1].pc = "returned" /\ calls[1].res.ok /\ calls[1].now = 0
    /\ calls[2].pc = "returned" /\ calls[2].res.ok /\ calls[2].now = 0
    /\ calls[1].ret # calls[2].ret

---------------------------------------------------------------------------
(* Properties of onRequest *)

\* onRequest has settled: it returned a Response or its promise rejected
Settled == pc \in {"done", "rejected"}

\* C25: every GET request ends in a JSON Response: a request whose handler
\* failed on the snapshot is answered with the JSON error 'Internal server
\* error' and status 500, and onRequest does not reject
C25_HandlerFailureAnswered500 ==
    /\ pc # "rejected"
    /\ Settled => response.status \in {200, 400, 404, 500}
    /\ Settled /\ pc = "rejected" => response = error("Internal server error", 500)

---------------------------------------------------------------------------
(* The build script: fetchJsonWithRetry.  An error is modelled by its      *)
(* message, null by "".                                                    *)

MaxRetries == 4

\* The values Number(process.env.RETRIES || 4) is run with
RetriesValues == 0..MaxRetries

\* The bodies `await response.json()` can resolve with
JsonBodies == {"{\"id\":1}", "{\"id\":2}"}

\* What a failed attempt can throw: a response that is not ok, a fetch that
\* rejects, a body that is not JSON
AttemptErrors == {"HTTP 503 for url", "fetch failed", "Unexpected end of JSON input"}

\* Math.floor(Math.random() * 120): the least and the greatest value
Jitters == {0, 119}

\* The parts of the model the build script does not touch
WorkerIdle ==
    /\ CoreIdle
    /\ ShortlistIdle
    /\ other = NoOther
    /\ feed = <<>>
    /\ req = NoRequest
    /\ pc = "idle"
    /\ hits = <<>>
    /\ response = NoResponse
    /\ CacheIdle

WorkerUnchanged ==
    /\ UNCHANGED coreVars
    /\ UNCHANGED apiVars
    /\ UNCHANGED shortlistVars
    /\ UNCHANGED other
    /\ UNCHANGED cacheVars

InitRetry ==
    /\ WorkerIdle
    /\ MapIdle
    /\ ChangesIdle
    /\ RETRIES \in RetriesValues
    /\ attempt = 0
    /\ lastError = ""
    /\ fetchPc = "idle"
    /\ fetchLog = <<>>
    /\ fetchOut = [threw |-> FALSE, value |-> ""]

RetryOnly ==
    /\ WorkerUnchanged
    /\ UNCHANGED <<mapVars, changeVars>>

\* `throw lastError` after the loop
throwLastError(e) == [threw |-> TRUE, value |-> e]

\* The entries of fetchLog
FetchEntry(n, e) == [op |-> "fetch", attempt |-> n, error |-> e]
SleepEntry(ms) == [op |-> "sleep", ms |-> ms]

\* 300 * 2 ** (attempt - 1) + Math.floor(Math.random() * 120)
backoffMs(n, jitter) == 300 * 2 ^ (n - 1) + jitter

\* fetchJsonWithRetry up to the first `await fetch(url, options)`, or to the
\* throw when the loop body is never entered
fetchJsonWithRetryStart ==
    /\ fetchPc = "idle"
    /\ lastError' = ""
    /\ attempt' = 1
    /\ IF attempt' <= RETRIES
       THEN fetchPc' = "fetch" /\ UNCHANGED fetchOut
       ELSE fetchPc' = "threw" /\ fetchOut' = throwLastError(lastError')
    /\ UNCHANGED <<RETRIES, fetchLog>>
    /\ RetryOnly

\* The attempt succeeds: the response is ok and its body is JSON
attemptReturns(body) ==
    /\ fetchPc = "fetch"
    /\ fetchLog' = Append(fetchLog, FetchEntry(attempt, ""))
    /\ fetchOut' = [threw |-> FALSE, value |-> body]
    /\ fetchPc' = "returned"
    /\ UNCHANGED <<RETRIES, attempt, lastError>>
    /\ RetryOnly

\* The catch block written to sleep after every failed attempt
attemptFails_alwaysSleeps(e, jitter) ==
    /\ fetchPc = "fetch"
    /\ lastError' = e
    /\ fetchLog' = fetchLog \o <<FetchEntry(attempt, e), SleepEntry(backoffMs(attempt, jitter))>>
    /\ fetchPc' = "sleep"
    /\ UNCHANGED <<attempt, fetchOut>>
    /\ UNCHANGED RETRIES
    /\ RetryOnly

\* The attempt fails: the catch block keeps the error and, when attempts are
\* left, sleeps; after the last attempt the loop ends and lastError is thrown
attemptFails(e, jitter) ==
    /\ fetchPc = "fetch"
    /\ lastError' = e
    /\ IF attempt < RETRIES
       THEN /\ fetchLog' = fetchLog \o <<FetchEntry(attempt, e),
                                          SleepEntry(backoffMs(attempt, jitter))>>
            /\ fetchPc' = "sleep"
            /\ UNCHANGED <<attempt, fetchOut>>
       ELSE /\ fetchLog' = Append(fetchLog, FetchEntry(attempt, e))
            /\ attempt' = attempt + 1
            /\ fetchPc' = "threw"
            /\ fetchOut' = throwLastError(lastError')
    /\ UNCHANGED RETRIES
    /\ RetryOnly

\* The sleep is over: attempt += 1 and the loop test
sleepResolves ==
    /\ fetchPc = "sleep"
    /\ attempt' = attempt + 1
    /\ IF attempt' <= RETRIES
       THEN fetchPc' = "fetch" /\ UNCHANGED fetchOut
       ELSE fetchPc' = "threw" /\ fetchOut' = throwLastError(lastError)
    /\ UNCHANGED <<RETRIES, lastError, fetchLog>>
    /\ RetryOnly

NextRetry ==
    \/ fetchJsonWithRetryStart
    \/ \E body \in JsonBodies : attemptReturns(body)
    \/ \E e \in AttemptErrors, jitter \in Jitters : attemptFails(e, jitter)
    \/ sleepResolves

\* Every fetch settles and every timer fires
SpecRetry == InitRetry /\ [][NextRetry]_vars /\ WF_vars(NextRetry)

\* The attempts made so far, in order
AttemptsMade == SelectSeq(fetchLog, LAMBDA x : x.op = "fetch")

\* The call is over
RetryOver == fetchPc \in {"returned", "threw"}

\* A backoff was slept only between two attempts
SleepsOnlyBetweenAttempts ==
    \A i \in 1..Len(fetchLog) :
        fetchLog[i].op = "sleep" =>
            /\ i > 1 /\ fetchLog[i - 1].op = "fetch"
            /\ i < Len(fetchLog) => fetchLog[i + 1].op = "fetch"
            /\ RetryOver => i < Len(fetchLog)

\* The JSON of the first attempt that succeeded is returned and that attempt
\* is the last one
ReturnsFirstSuccess ==
    /\ \A i \in 1..Len(AttemptsMade) :
          AttemptsMade[i].error = "" => i = Len(AttemptsMade) /\ fetchPc = "returned"
    /\ fetchPc = "returned" =>
          /\ ~fetchOut.threw /\ fetchOut.value \in JsonBodies
          /\ Len(AttemptsMade) >= 1 /\ AttemptsMade[Len(AttemptsMade)].error = ""

\* After RETRIES failed attempts the error of the last one is thrown
ThrowsLastError ==
    fetchPc = "threw" =>
        /\ fetchOut.threw
        /\ Len(AttemptsMade) = RETRIES
        /\ \A i \in 1..Len(AttemptsMade) : AttemptsMade[i].error # ""
        /\ fetchOut.value = IF AttemptsMade = <<>> THEN ""
                            ELSE AttemptsMade[Len(AttemptsMade)].error

\* C26: fetchJsonWithRetry always terminates: it makes at most RETRIES
\* attempts, returns the JSON of the first attempt that succeeds and makes no
\* attempt after it, sleeps a backoff only between attempts, and after RETRIES
\* failed attempts throws the error of the last attempt
C26_RetryTerminates ==
    /\ [](/\ Len(AttemptsMade) <= RETRIES
          /\ \A i \in 1..Len(AttemptsMade) : AttemptsMade[i].attempt = i
          /\ SleepsOnlyBetweenAttempts
          /\ ReturnsFirstSuccess
          /\ ThrowsLastError)
    /\ <>RetryOver

\* Four attempts failed, the last two with different errors, three backoffs
\* were slept and the last error was thrown
C26_Witness ==
    /\ fetchPc = "threw" /\ RETRIES = 4
    /\ Len(fetchLog) = 7
    /\ fetchLog[5].error = "fetch failed"
    /\ fetchLog[6] = SleepEntry(1319)
    /\ fetchOut = throwLastError("HTTP 503 for url")

---------------------------------------------------------------------------
(* The build script: mapWithConcurrency and fetchEventDetails *)

MaxItems == 3
MaxLimit == 3

\* The event ids of the search index: a set, sorted by .sort(), not empty
IdPool == {"10", "9", "E2"}
EventIdLists ==
    {sortStrings(ids) : ids \in {s \in SUBSET IdPool : s # {} /\ Cardinality(s) <= MaxItems}}

\* The values Number(process.env.CONCURRENCY || 8) is run with
LimitValues == (0..MaxLimit) \cup {8}

\* Math.max and Math.min of two numbers
MathMax(a, b) == IF a >= b THEN a ELSE b
MathMin(a, b) == IF a <= b THEN a ELSE b

\* An empty slot of new Array(items.length)
Hole == [ok |-> FALSE, eventId |-> "", hole |-> TRUE]

\* What the worker of fetchEventDetails resolves with for an event id: the
\* record when fetchJsonWithRetry returned, the error when it threw
detailOf(eventId, ok) ==
    IF ok THEN [ok |-> TRUE, eventId |-> eventId, record |-> [event_id |-> eventId]]
    ELSE [ok |-> FALSE, eventId |-> eventId, error |-> "Error: HTTP 503 for url"]

InitMap ==
    /\ WorkerIdle
    /\ RetryIdle
    /\ ChangesIdle
    /\ CONCURRENCY \in LimitValues
    /\ eventIds \in EventIdLists
    /\ records = <<>>
    /\ nextIndex = 0
    /\ workers = <<>>
    /\ invoked = <<>>
    /\ details = NoDetails

MapOnly ==
    /\ WorkerUnchanged
    /\ UNCHANGED <<retryVars, changeVars>>

\* Array.from({ length: Math.max(1, Math.min(limit, items.length)) }, ...)
workerCount(limit, n) == MathMax(1, MathMin(limit, n))

\* The runWorker calls made one after the other by Array.from: each takes the
\* next index and calls the worker, up to its await, while indexes are left
RECURSIVE startWorkers(_, _, _)
startWorkers(count, n, acc) ==
    IF Len(acc.workers) = count THEN acc
    ELSE IF acc.nextIndex < n
    THEN startWorkers(count, n,
             [workers   |-> Append(acc.workers, [pc |-> "await", current |-> acc.nextIndex]),
              nextIndex |-> acc.nextIndex + 1,
              invoked   |-> [acc.invoked EXCEPT ![acc.nextIndex + 1] = @ + 1]])
    ELSE startWorkers(count, n,
             [acc EXCEPT !.workers = Append(acc.workers, [pc |-> "done", current |-> 0])])

\* fetchEventDetails up to `await Promise.all(workers)` in mapWithConcurrency
mapWithConcurrencyStart ==
    /\ workers = <<>> /\ ~details.resolved
    /\ LET n == Len(eventIds)
           started == startWorkers(workerCount(CONCURRENCY, n), n,
                          [workers |-> <<>>, nextIndex |-> 0, invoked |-> [i \in 1..n |-> 0]])
       IN  /\ records' = [i \in 1..n |-> Hole]
           /\ workers' = started.workers
           /\ nextIndex' = started.nextIndex
           /\ invoked' = started.invoked
    /\ UNCHANGED <<CONCURRENCY, eventIds, details>>
    /\ MapOnly

\* runWorker written with one `current` shared by all the runWorker calls
runWorkerResumes_sharedCurrent(w, ok) ==
    /\ w \in 1..Len(workers) /\ workers[w].pc = "await"
    /\ records' = [records EXCEPT ![nextIndex] = detailOf(eventIds[nextIndex], ok)]
    /\ IF nextIndex < Len(eventIds)
       THEN /\ workers' = [workers EXCEPT ![w] = [pc |-> "await", current |-> nextIndex]]
            /\ nextIndex' = nextIndex + 1
            /\ invoked' = [invoked EXCEPT ![nextIndex + 1] = @ + 1]
       ELSE /\ workers' = [workers EXCEPT ![w] = [pc |-> "done", current |-> 0]]
            /\ UNCHANGED <<nextIndex, invoked>>
    /\ UNCHANGED <<CONCURRENCY, eventIds, details>>
    /\ MapOnly

\* runWorker after `await worker(items[current], current)`: the result is
\* stored at current; then the loop test, the next index and the next call of
\* the worker, or the end of this runWorker
runWorkerResumes(w, ok) ==
    /\ w \in 1..Len(workers) /\ workers[w].pc = "await"
    /\ records' = [records EXCEPT ![workers[w].current + 1] =
                      detailOf(eventIds[workers[w].current + 1], ok)]
    /\ IF nextIndex < Len(eventIds)
       THEN /\ workers' = [workers EXCEPT ![w] = [pc |-> "await", current |-> nextIndex]]
            /\ nextIndex' = nextIndex + 1
            /\ invoked' = [invoked EXCEPT ![nextIndex + 1] = @ + 1]
       ELSE /\ workers' = [workers EXCEPT ![w] = [pc |-> "done", current |-> 0]]
            /\ UNCHANGED <<nextIndex, invoked>>
    /\ UNCHANGED <<CONCURRENCY, eventIds, details>>
    /\ MapOnly

\* records.filter(...).map(...): filter skips the empty slots of an array
RECURSIVE filterMap(_, _, _)
filterMap(rs, wantOk, acc) ==
    IF Len(rs) = 0 THEN acc
    ELSE IF rs[1] # Hole /\ rs[1].ok = wantOk
    THEN filterMap(Tail(rs), wantOk,
                   Append(acc, IF wantOk THEN rs[1].record ELSE rs[1].eventId))
    ELSE filterMap(Tail(rs), wantOk, acc)

\* Promise.all(workers) resolves, mapWithConcurrency returns results and
\* fetchEventDetails returns { success, failed }
fetchEventDetailsReturns ==
    /\ workers # <<>> /\ ~details.resolved
    /\ \A w \in 1..Len(workers) : workers[w].pc = "done"
    /\ details' = [success  |-> filterMap(records, TRUE, <<>>),
                   failed   |-> filterMap(records, FALSE, <<>>),
                   resolved |-> TRUE]
    /\ UNCHANGED <<CONCURRENCY, eventIds, records, nextIndex, workers, invoked>>
    /\ MapOnly

NextMap ==
    \/ mapWithConcurrencyStart
    \/ \E w \in 1..MaxItems, ok \in BOOLEAN : runWorkerResumes(w, ok)
    \/ fetchEventDetailsReturns

SpecMap == InitMap /\ [][NextMap]_vars

\* The calls of the worker that have not settled
InFlight == {w \in 1..Len(workers) : workers[w].pc = "await"}

\* Every item was handed to the worker at most once, and exactly once when
\* mapWithConcurrency has resolved; results[i] is then the worker's value for
\* items[i]
OncePerItem ==
    /\ \A i \in 1..Len(invoked) : invoked[i] <= 1
    /\ details.resolved =>
          \A i \in 1..Len(eventIds) :
              /\ invoked[i] = 1
              /\ records[i] \in {detailOf(eventIds[i], TRUE), detailOf(eventIds[i], FALSE)}

\* success and failed split the event ids: none lost, none twice
Partitioned ==
    details.resolved =>
        LET succeeded == {details.success[i].event_id : i \in 1..Len(details.success)}
            failedIds == {details.failed[i] : i \in 1..Len(details.failed)}
        IN  /\ succeeded \cup failedIds = {eventIds[i] : i \in 1..Len(eventIds)}
            /\ succeeded \cap failedIds = {}
            /\ Len(details.success) + Len(details.failed) = Len(eventIds)

\* C27 as stated: the worker is called exactly once for every item, never more
\* than min(limit, number of items) calls are in flight, results[i] is the
\* value for items[i], and fetchEventDetails partitions the event ids
C27_OncePerItemWithinLimit ==
    /\ OncePerItem
    /\ Cardinality(InFlight) <= MathMin(CONCURRENCY, Len(eventIds))
    /\ Partitioned

\* C27, amended: as stated, with at most max(1, min(limit, number of items))
\* calls in flight
C27_OncePerItemWithinClampedLimit ==
    /\ OncePerItem
    /\ Cardinality(InFlight) <= MathMax(1, MathMin(CONCURRENCY, Len(eventIds)))
    /\ Partitioned

\* Three ids were fetched two at a time, the fetch of one id failed, and
\* fetchEventDetails returned the two records and the failed id
C27_Witness ==
    /\ details.resolved /\ CONCURRENCY = 2
    /\ eventIds = <<"10", "9", "E2">>
    /\ details.failed = <<"9">>
    /\ Len(details.success) = 2

---------------------------------------------------------------------------
(* The build script: buildChangeRecords.  A Map is the sequence of its     *)
(* values in insertion order; a property a record leaves out is "".        *)

MaxEvents == 2

ChangeIds == {"E1", "E2"}

\* An event record of a build, as far as buildChangeRecords reads it
BuildEvent(id, status, sha) ==
    [event_id |-> id, name |-> "Talk", date |-> "2026-03-14", status |-> status,
     record_version |-> IF sha = "" THEN "" ELSE "2026-03-01:" \o sha,
     record_sha256 |-> sha]

\* The events of this build: detectEventStatus gives every one a status
CurrentEventsOf(id) ==
    {BuildEvent(id, status, sha) : status \in {"active", "cancelled"}, sha \in {"", "h1", "h2"}}

\* The lines of the previous agent-schedule.v1.ndjson: status and signature
\* may be missing
PreviousEventsOf(id) ==
    {BuildEvent(id, status, sha) : status \in {"", "active", "cancelled"}, sha \in {"", "h1"}}

\* The lists of at most n of the events
RECURSIVE EventLists(_, _)
EventLists(n, events) ==
    IF n = 0 THEN {<<>>}
    ELSE LET shorter == EventLists(n - 1, events)
         IN  shorter
             \cup {Append(list, e) : list \in {l \in shorter : Len(l) = n - 1}, e \in events}

UniqueIds(list) == \A i, j \in 1..Len(list) : i # j => list[i].event_id # list[j].event_id

\* stripRecordSignature(event)
stripRecordSignature(e) ==
    [event_id |-> e.event_id, name |-> e.name, date |-> e.date, status |-> e.status]

\* hashStable(data): the digest of the stable JSON text of data
hashStable(data) ==
    "sha256(" \o data.event_id \o "," \o data.name \o "," \o data.date \o "," \o data.status \o ")"

\* map.get(key): the value, or NoEvent for undefined
NoEvent == [event_id |-> ""]
mapGet(map, key) ==
    IF \E i \in 1..Len(map) : map[i].event_id = key
    THEN map[CHOOSE i \in 1..Len(map) : map[i].event_id = key]
    ELSE NoEvent

\* map.has(key)
mapHas(map, key) == \E i \in 1..Len(map) : map[i].event_id = key

\* new Map(currentEvents.map((event) => [event.event_id, event])): a key keeps
\* its first place and takes its last value
RECURSIVE newMap(_, _)
newMap(events, map) ==
    IF Len(events) = 0 THEN map
    ELSE newMap(Tail(events),
                IF mapHas(map, events[1].event_id)
                THEN [i \in 1..Len(map) |->
                         IF map[i].event_id = events[1].event_id THEN events[1] ELSE map[i]]
                ELSE Append(map, events[1]))

\* record.record_sha256 || hashStable(stripRecordSignature(record))
hashOf(e) == IF e.record_sha256 # "" THEN e.record_sha256 ELSE hashStable(stripRecordSignature(e))

\* record.status || "active"
statusOf(e) == IF e.status # "" THEN e.status ELSE "active"

\* The if chain written with the hash compared first
changeTypeOf_hashFirst(previous, current) ==
    IF hashOf(previous) # hashOf(current) THEN "modified"
    ELSE IF statusOf(previous) # statusOf(current) /\ statusOf(current) = "cancelled"
    THEN "cancelled"
    ELSE IF statusOf(previous) # statusOf(current) /\ statusOf(current) = "active"
    THEN "uncancelled"
    ELSE ""

\* changeType of an event of both builds, "" for null
changeTypeOf(previous, current) ==
    IF statusOf(previous) # statusOf(current) /\ statusOf(current) = "cancelled"
    THEN "cancelled"
    ELSE IF statusOf(previous) # statusOf(current) /\ statusOf(current) = "active"
    THEN "uncancelled"
    ELSE IF hashOf(previous) # hashOf(current) THEN "modified"
    ELSE ""

\* The record pushed for an event of this build, or nothing
changeOfCurrent(current, previousById) ==
    LET previous == mapGet(previousById, current.event_id) IN
    IF previous = NoEvent
    THEN << [change_type |-> "added", event_id |-> current.event_id,
             status |-> current.status, record_sha256 |-> current.record_sha256,
             previous_record_sha256 |-> "", tombstone |-> FALSE] >>
    ELSE IF changeTypeOf(previous, current) # ""
    THEN << [change_type |-> changeTypeOf(previous, current), event_id |-> current.event_id,
             status |-> current.status, record_sha256 |-> current.record_sha256,
             previous_record_sha256 |-> hashOf(previous),
             tombstone |-> changeTypeOf(previous, current) = "cancelled"] >>
    ELSE <<>>

\* The first loop: over currentById.entries()
RECURSIVE currentLoop(_, _, _)
currentLoop(entries, previousById, acc) ==
    IF Len(entries) = 0 THEN acc
    ELSE currentLoop(Tail(entries), previousById,
                     acc \o changeOfCurrent(entries[1], previousById))

\* The second loop: over previousEventsById.entries()
RECURSIVE previousLoop(_, _, _)
previousLoop(entries, currentById, acc) ==
    IF Len(entries) = 0 THEN acc
    ELSE previousLoop(Tail(entries), currentById,
             IF mapHas(currentById, entries[1].event_id) THEN acc
             ELSE Append(acc,
                      [change_type |-> "removed", event_id |-> entries[1].event_id,
                       status |-> "removed", record_sha256 |-> "",
                       previous_record_sha256 |-> hashOf(entries[1]),
                       tombstone |-> TRUE]))

\* The comparator of records.sort: by event_id, then by change_type
changeSort(a, b) ==
    IF localeCompare(a.event_id, b.event_id) # 0
    THEN localeCompare(a.event_id, b.event_id)
    ELSE localeCompare(a.change_type, b.change_type)

RECURSIVE insertChange(_, _)
insertChange(sorted, row) ==
    IF Len(sorted) = 0 THEN <<row>>
    ELSE IF changeSort(row, sorted[1]) < 0 THEN <<row>> \o sorted
    ELSE <<sorted[1]>> \o insertChange(Tail(sorted), row)

RECURSIVE sortChanges(_, _)
sortChanges(rows, sorted) ==
    IF Len(rows) = 0 THEN sorted
    ELSE sortChanges(Tail(rows), insertChange(sorted, rows[1]))

\* records.filter((record) => record.change_type === type).length
countOf(rows, type) == Len(SelectSeq(rows, LAMBDA r : r.change_type = type))

buildChangeRecords(current, previousById) ==
    LET currentById == newMap(current, <<>>)
        rows == sortChanges(previousLoop(previousById, currentById,
                                         currentLoop(currentById, previousById, <<>>)),
                            <<>>)
        counts == [added       |-> countOf(rows, "added"),
                   modified    |-> countOf(rows, "modified"),
                   removed     |-> countOf(rows, "removed"),
                   cancelled   |-> countOf(rows, "cancelled"),
                   uncancelled |-> countOf(rows, "uncancelled")]
    IN  [called   |-> TRUE,
         metadata |-> [total_changes   |-> Len(rows),
                       added           |-> counts.added,
                       modified        |-> counts.modified,
                       removed         |-> counts.removed,
                       cancelled       |-> counts.cancelled,
                       uncancelled     |-> counts.uncancelled,
                       tombstone_count |-> Len(SelectSeq(rows, LAMBDA r : r.tombstone))],
         records  |-> rows,
         counts   |-> counts]

\* verify-export: summarizeCounts(records)
RECURSIVE summarizeCounts(_, _)
summarizeCounts(rows, out) ==
    IF Len(rows) = 0 THEN out
    ELSE summarizeCounts(Tail(rows),
             IF rows[1].change_type \in DOMAIN out
             THEN [out EXCEPT ![rows[1].change_type] = @ + 1]
             ELSE out)

InitChanges ==
    /\ WorkerIdle
    /\ RetryIdle
    /\ MapIdle
    /\ currentEvents \in
          {l \in EventLists(MaxEvents, UNION {CurrentEventsOf(id) : id \in ChangeIds}) :
              Len(l) >= 1 /\ UniqueIds(l)}
    /\ previousEventsById \in
          {l \in EventLists(MaxEvents, UNION {PreviousEventsOf(id) : id \in ChangeIds}) :
              UniqueIds(l)}
    /\ changeSet = NoChanges

\* main: buildChangeRecords(agentEvents, previousEventsById, ...)
CallBuildChangeRecords ==
    /\ ~changeSet.called
    /\ changeSet' = buildChangeRecords(currentEvents, previousEventsById)
    /\ UNCHANGED <<currentEvents, previousEventsById>>
    /\ WorkerUnchanged
    /\ UNCHANGED <<retryVars, mapVars>>

NextChanges == CallBuildChangeRecords

SpecChanges == InitChanges /\ [][NextChanges]_vars

\* The change records of an event id
ChangesOf(id) == SelectSeq(changeSet.records, LAMBDA r : r.event_id = id)

\* The event of that id in a build
InBuild(build, id) == \E i \in 1..Len(build) : build[i].event_id = id
EventOf(build, id) == build[CHOOSE i \in 1..Len(build) : build[i].event_id = id]

\* The status of a record, active when it has none, and its hash
StatusIn(build, id) ==
    IF EventOf(build, id).status = "" THEN "active" ELSE EventOf(build, id).status
HashIn(build, id) ==
    IF EventOf(build, id).record_sha256 = ""
    THEN hashStable(stripRecordSignature(EventOf(build, id)))
    ELSE EventOf(build, id).record_sha256

\* The change type the claim gives an event id, "" for no record
ClaimedChange(id) ==
    IF InBuild(currentEvents, id) /\ ~InBuild(previousEventsById, id) THEN "added"
    ELSE IF ~InBuild(currentEvents, id) /\ InBuild(previousEventsById, id) THEN "removed"
    ELSE IF ~InBuild(currentEvents, id) THEN ""
    ELSE IF StatusIn(previousEventsById, id) # StatusIn(currentEvents, id)
            /\ StatusIn(currentEvents, id) = "cancelled" THEN "cancelled"
    ELSE IF StatusIn(previousEventsById, id) # StatusIn(currentEvents, id)
            /\ StatusIn(currentEvents, id) = "active" THEN "uncancelled"
    ELSE IF HashIn(previousEventsById, id) # HashIn(currentEvents, id) THEN "modified"
    ELSE ""

\* C28: buildChangeRecords emits at most one change record per event id, of
\* the type the two builds give it (added, removed, cancelled, uncancelled,
\* modified, or none); tombstone is true exactly for removed and cancelled
\* records; total_changes is the sum of the five per-type counts
C28_OneChangePerEvent ==
    changeSet.called =>
        /\ \A id \in ChangeIds :
              /\ Len(ChangesOf(id)) <= 1
              /\ ClaimedChange(id) = "" <=> ChangesOf(id) = <<>>
              /\ ChangesOf(id) # <<>> => ChangesOf(id)[1].change_type = ClaimedChange(id)
        /\ \A i \in 1..Len(changeSet.records) :
              /\ changeSet.records[i].event_id \in ChangeIds
              /\ changeSet.records[i].tombstone
                 <=> changeSet.records[i].change_type \in {"removed", "cancelled"}
        /\ changeSet.metadata.total_changes
           = changeSet.metadata.added + changeSet.metadata.modified
             + changeSet.metadata.removed + changeSet.metadata.cancelled
             + changeSet.metadata.uncancelled
        /\ changeSet.metadata.total_changes = Len(changeSet.records)
        /\ summarizeCounts(changeSet.records,
                           [added |-> 0, modified |-> 0, removed |-> 0,
                            cancelled |-> 0, uncancelled |-> 0])
           = changeSet.counts

\* An event whose hash changed together with its status is recorded as
\* cancelled, and the event that is gone as removed
C28_Witness ==
    /\ changeSet.called
    /\ Len(changeSet.records) = 2
    /\ changeSet.records[1].change_type = "cancelled"
    /\ changeSet.records[1].record_sha256 = "h2"
    /\ changeSet.records[1].previous_record_sha256 = "h1"
    /\ changeSet.records[2].change_type = "removed"
    /\ changeSet.metadata.tombstone_count = 2

---------------------------------------------------------------------------
(* Bounds of the match result *)

\* C29: a result that does not match has score 0 and no matched terms or
\* fields; matched_fields is empty exactly when matched_terms is; a result
\* that matches has 3 * |matched_terms| <= score <= 16 * |matched_terms| + 4;
\* so a match in 'any' mode of a query that is not blank has a score of at
\* least 3 and at least one matched term
C29_ScoreBounds ==
    Returned =>
        /\ ~result.matches =>
              result.score = 0 /\ result.matched_terms = <<>> /\ result.matched_fields = <<>>
        /\ result.matched_fields = <<>> <=> result.matched_terms = <<>>
        /\ result.matches =>
              /\ 3 * Len(result.matched_terms) <= result.score
              /\ result.score <= 16 * Len(result.matched_terms) + 4
        /\ (result.matches /\ qMode = "any" /\ ~IsBlank(query)) =>
              result.score >= 3 /\ Len(result.matched_terms) >= 1

\* panel is found in the category only: 2 for the field and 1 for the term,
\* the least score of a match in 'any' mode
C29_Witness ==
    /\ Returned /\ qMode = "any" /\ query = "panel"
    /\ event.category = "Panel" /\ event.event_type = "" /\ event.contributors = <<>>
    /\ result.matches
    /\ result.score = 3
    /\ result.matched_terms = <<"panel">>
    /\ result.matched_fields = <<"category">>

---------------------------------------------------------------------------
(* Phrase matches and matched terms *)

\* The call is a phrase match of a query with at least one token
PhraseMatched ==
    Returned /\ qMode = "phrase" /\ result.matches /\ CanonicalTokenSet(query) # {}

\* The matched terms of the call, as a set
MatchedTermSet == {result.matched_terms[i] : i \in 1..Len(result.matched_terms)}

\* C30 as stated: whenever a phrase query with at least one token matches,
\* every canonical query token is in matched_terms, so matched_terms and
\* matched_fields are not empty
C30_PhraseCoversQueryTokens ==
    PhraseMatched =>
        /\ CanonicalTokenSet(query) \subseteq MatchedTermSet
        /\ result.matched_terms # <<>>
        /\ result.matched_fields # <<>>

\* C30, amended: whenever a phrase query with at least one token matches, the
\* normalized query is a substring of rawBlob or the canonicalized query is a
\* substring of canonicalBlob, and matched_terms holds exactly the canonical
\* query tokens that are in one of the event's field token sets: a query
\* token the phrase covers only as part of a word is not among them
C30_PhraseCoversTokensOfFields ==
    PhraseMatched =>
        LET index == buildSearchIndex(event) IN
        /\ RawSubstring(index, query) \/ CanonicalSubstring(index, query)
        /\ MatchedTermSet = {t \in CanonicalTokenSet(query) : TokenInSomeField(index, t)}

\* art is found inside party: the phrase matches with the bonus alone and no
\* matched term
C30_Witness ==
    /\ PhraseMatched /\ query = "art"
    /\ event.name = "LLM Party"
    /\ result.score = 4
    /\ result.matched_terms = <<>>
    /\ result.matched_fields = <<>>

===========================================================================
